---- MODULE Spec2Model ----
(***************************************************************************)
(* The per-server job queue of bowser-gen: QueueWidget with its Job and    *)
(* JobWidget (apps/gen/src/gen/queuewidget.py), the submission transform   *)
(* of Job (apps/gen/src/gen/job.py) and the comfyServer connection         *)
(* (apps/gen/src/gen/comfyserver.py).                                      *)
(*                                                                         *)
(* One QueueWidget and its connection are modelled.  Every Qt slot (timer  *)
(* tick, websocket text message, cancel click, ...) runs to completion on  *)
(* the single GUI thread, so every slot is one atomic action.  The remote  *)
(* server is the environment: it answers a submit with a fresh prompt id   *)
(* or with an error reply, and it may push any event for any prompt id at  *)
(* any time.  The HTTP requests themselves are taken to return.  Of a      *)
(* job's results only the timing keys are kept; result files, previews     *)
(* and _last_prompt_id, which only the saving of result files reads, are   *)
(* left out.                                                               *)
(***************************************************************************)
EXTENDS Integers, Sequences, FiniteSets, TLC

\* Bounds of the model.
MaxJobs == 2
MaxCount == 2
MaxIds == 2
MaxObservations == 2
MaxClock == 2

VARIABLES
    jobs,          \* the Job objects created so far, by job number
    pending,       \* QueueWidget._new_job_widgets (deque)
    active,        \* QueueWidget._active_job_widgets (dict prompt id -> job)
    history,       \* QueueWidget._old_job_widgets (deque)
    connected,     \* comfyServer._connected
    nextId,        \* the prompt id the server hands out next
    op,            \* what the last slot did to the connection and to the user
    servers,       \* ServersWidget._server_queue_widgets: its keys, in insertion order
    tabs,          \* ServersWidget.tab_widget: the queue widget (by address) of each tab
    tab,           \* ServersWidget.tab_widget.currentIndex()
    queues,        \* the QueueWidget of each registered address
    probe          \* a Job, or a call of a function, looked at on its own

vars == <<jobs, pending, active, history, connected, nextId, op>>

srvvars == <<servers, tabs, tab, queues>>

allvars == <<vars, srvvars, probe>>

queue == <<jobs, pending, active, history>>

PromptIds == 1..MaxIds
\* The "Number of Times to Run" a job is queued with: a single run or MaxCount runs.
Counts == {1, MaxCount}
SubmitReplies == {"ok", "error"}

EmptyMap == [x \in {} |-> 0]

RemoveNothing(f, k) == f

Remove(f, k) == [x \in (DOMAIN f) \ {k} |-> f[x]]

RECURSIVE Without(_, _)
Without(s, e) ==
    IF s = <<>> THEN <<>>
    ELSE IF Head(s) = e THEN Tail(s)
    ELSE <<Head(s)>> \o Without(Tail(s), e)

InSeq(s, e) == \E i \in 1..Len(s) : s[i] = e

\* What a slot did to its collaborators: the job it passed to queue_prompt (0:
\* none) and the reply it got, the prompt ids it passed to cancel_prompt, whether
\* it showed the "Execution Error" dialog, whether an exception left the slot.
\* A slot that did none of these leaves Quiet.
Quiet ==
    [submit |-> 0, reply |-> "none", interrupts |-> <<>>,
     notice |-> FALSE, raised |-> FALSE]

----------------------------------------------------------------------------
\* Job

NewJob(c) == [count |-> c, completions |-> 0, error |-> FALSE, results |-> EmptyMap]

is_completed_late(job) == job.completions > job.count

is_completed(job) == job.completions >= job.count

add_completion(job) == [job EXCEPT !.completions = @ + 1]

\* results[completions] exists
HasRecord(job) == job.completions \in DOMAIN job.results

set_start_time(job) ==
    [job EXCEPT !.results[job.completions] = @ \cup {"start_time"}]

\* set_end_time stores end_time and then reads start_time: a KeyError when the
\* iteration never got its execution_start.
SetEndTimeRaises(job) ==
    ~HasRecord(job) \/ "start_time" \notin job.results[job.completions]

set_end_time(job) ==
    IF ~HasRecord(job) THEN job
    ELSE IF SetEndTimeRaises(job)
    THEN [job EXCEPT !.results[job.completions] = @ \cup {"end_time"}]
    ELSE [job EXCEPT !.results[job.completions] = @ \cup {"end_time", "elapsed_time"}]

submission_keeps_record(job) ==
    [job EXCEPT !.results = job.results @@ (job.completions :> {})]

\* The submission transform starts a fresh record for the current iteration.
get_workflow_for_submission(job) ==
    [job EXCEPT !.results = (job.completions :> {}) @@ job.results]

\* A job that was handed to queue_prompt at least once.
Submitted(job) == DOMAIN job.results # {}

----------------------------------------------------------------------------
\* comfyServer

OnConnected ==
    /\ ~connected
    /\ connected' = TRUE
    /\ op' = Quiet
    /\ UNCHANGED <<jobs, pending, active, history, nextId>>

OnDisconnected ==
    /\ connected
    /\ connected' = FALSE
    /\ op' = Quiet
    /\ UNCHANGED <<jobs, pending, active, history, nextId>>

\* The server's answer to POST /prompt, which queue_prompt returns as it is: a
\* fresh prompt id, or an error reply that carries no "prompt_id".
CanReply(reply) == reply = "error" \/ nextId <= MaxIds

----------------------------------------------------------------------------
\* QueueWidget

Init ==
    /\ jobs = <<>>
    /\ pending = <<>>
    /\ active = EmptyMap
    /\ history = <<>>
    /\ connected = FALSE
    /\ nextId = 1
    /\ op = Quiet

queue_job_at_front(c) ==
    /\ Len(jobs) < MaxJobs
    /\ jobs' = Append(jobs, NewJob(c))
    /\ pending' = <<Len(jobs) + 1>> \o pending
    /\ op' = Quiet
    /\ UNCHANGED <<active, history, connected, nextId>>

queue_job(c) ==
    /\ Len(jobs) < MaxJobs
    /\ jobs' = Append(jobs, NewJob(c))
    /\ pending' = Append(pending, Len(jobs) + 1)
    /\ op' = Quiet
    /\ UNCHANGED <<active, history, connected, nextId>>

TickReadyUnconnected == Len(pending) >= 1

\* _update_deque returns early without jobs or without a connection.
TickReady == Len(pending) >= 1 /\ connected

TickAdmitsOffByOne ==
    /\ Cardinality(DOMAIN active) = 0
    /\ Len(pending) > 1
    /\ ~jobs[pending[1]].error

TickAdmitsWhileActive ==
    /\ Len(pending) > 0
    /\ ~jobs[pending[1]].error

\* "move to next job if ready": nothing active, and the first pending job has
\* no error.
TickAdmits ==
    /\ Cardinality(DOMAIN active) = 0
    /\ Len(pending) > 0
    /\ ~jobs[pending[1]].error

\* The timer slot.  queue_result["prompt_id"] raises KeyError on an error reply,
\* after the transform has run, and nothing in the slot catches it.
_update_deque ==
    IF TickReady /\ TickAdmits
    THEN \E reply \in SubmitReplies :
            /\ CanReply(reply)
            /\ jobs' = [jobs EXCEPT ![pending[1]] = get_workflow_for_submission(@)]
            /\ IF reply = "ok"
               THEN /\ active' = (nextId :> pending[1]) @@ active
                    /\ nextId' = nextId + 1
               ELSE UNCHANGED <<active, nextId>>
            /\ op' = [Quiet EXCEPT !.submit = pending[1], !.reply = reply,
                                   !.raised = (reply = "error")]
            /\ UNCHANGED <<pending, history, connected>>
    ELSE /\ op' = Quiet
         /\ UNCHANGED <<jobs, pending, active, history, connected, nextId>>

ActiveJobsOfQueue == {active[id] : id \in DOMAIN active}

\* prompt_id in self._active_job_widgets
Known(id) == id \in DOMAIN active

OnProgress(id) ==
    /\ op' = Quiet
    /\ UNCHANGED <<jobs, pending, active, history, connected, nextId>>

OnExecutionStart(id) ==
    /\ op' = Quiet
    /\ jobs' = IF Known(id) /\ HasRecord(jobs[active[id]])
               THEN [jobs EXCEPT ![active[id]] = set_start_time(@)]
               ELSE jobs
    /\ UNCHANGED <<pending, active, history, connected, nextId>>

SuccessContinuesAlways(job) == TRUE

\* After a completion that did not finish the job: "if not active_widget.job.error".
SuccessContinues(job) == ~job.error

\* execution_success.  Every exception is caught by the handler's own
\* "except Exception" and ends it where it was raised.
OnExecutionSuccess(id) ==
    /\ UNCHANGED connected
    /\ IF ~Known(id)
       THEN /\ op' = Quiet
            /\ UNCHANGED <<jobs, pending, active, history, nextId>>
       ELSE LET j == active[id] IN
            IF SetEndTimeRaises(jobs[j])
            THEN /\ jobs' = [jobs EXCEPT ![j] = set_end_time(@)]
                 /\ op' = Quiet
                 /\ UNCHANGED <<pending, active, history, nextId>>
            ELSE LET done == add_completion(set_end_time(jobs[j])) IN
                 IF is_completed(done)
                 THEN IF pending = <<>>
                      THEN /\ jobs' = [jobs EXCEPT ![j] = done]
                           /\ op' = Quiet
                           /\ UNCHANGED <<pending, active, history, nextId>>
                      ELSE /\ jobs' = [jobs EXCEPT ![j] = done]
                           /\ pending' = Tail(pending)
                           /\ active' = Remove(active, id)
                           /\ history' = Append(history, Head(pending))
                           /\ op' = Quiet
                           /\ UNCHANGED nextId
                 ELSE IF SuccessContinues(done)
                      THEN \E reply \in SubmitReplies :
                              /\ CanReply(reply)
                              /\ jobs' = [jobs EXCEPT ![j] = get_workflow_for_submission(done)]
                              /\ IF reply = "ok"
                                 THEN /\ active' = (nextId :> j) @@ Remove(active, id)
                                      /\ nextId' = nextId + 1
                                 ELSE /\ active' = Remove(active, id)
                                      /\ UNCHANGED nextId
                              /\ op' = [Quiet EXCEPT !.submit = j, !.reply = reply]
                              /\ UNCHANGED <<pending, history>>
                      ELSE /\ jobs' = [jobs EXCEPT ![j] = done]
                           /\ active' = Remove(active, id)
                           /\ op' = Quiet
                           /\ UNCHANGED <<pending, history, nextId>>

ErrorTargetsAnyId(id) == ActiveJobsOfQueue

\* The jobs whose widget gets error() on execution_error for prompt id.
ErrorTargets(id) == IF Known(id) THEN {active[id]} ELSE {}

\* execution_error: JobWidget.error() on the active widget, then the dialog,
\* which is shown for every execution_error message.
OnExecutionError(id) ==
    /\ jobs' = [j \in DOMAIN jobs |->
                  IF j \in ErrorTargets(id) THEN [jobs[j] EXCEPT !.error = TRUE]
                  ELSE jobs[j]]
    /\ op' = [Quiet EXCEPT !.notice = TRUE]
    /\ UNCHANGED <<pending, active, history, connected, nextId>>

\* A job's widget can be clicked while it sits in the queue or the history list.
HasWidget(j) == InSeq(pending, j) \/ InSeq(history, j)

ActiveIdsOf(j) == {id \in DOMAIN active : active[id] = j}

PendingHeadDroppedOnCancel(j) == IF InSeq(pending, j) THEN Tail(pending) ELSE pending

PendingKeptOnCancel(j) == pending

\* _job_canceled, first part: out of the queue list, into the history list.
PendingAfterCancel(j) == Without(pending, j)

HistoryAppendedOnCancel(j) == Append(history, j)

HistoryRestartedOnCancel(j) == IF InSeq(pending, j) THEN <<j>> ELSE history

HistoryAfterCancel(j) == IF InSeq(pending, j) THEN Append(history, j) ELSE history

InterruptsAnyOnCancel(j) ==
    IF active = EmptyMap THEN <<>>
    ELSE <<CHOOSE id \in DOMAIN active : \A k \in DOMAIN active : id <= k>>

\* _job_canceled, second part: the loop over the active dict interrupts the first
\* prompt id that holds the widget, deletes it and stops.
InterruptsOnCancel(j) ==
    IF ActiveIdsOf(j) = {} THEN <<>>
    ELSE <<CHOOSE id \in ActiveIdsOf(j) : \A k \in ActiveIdsOf(j) : id <= k>>

ActiveKeptOnCancel(j) == active

ActiveAfterCancel(j) ==
    IF InterruptsOnCancel(j) = <<>> THEN active
    ELSE Remove(active, InterruptsOnCancel(j)[1])

\* JobWidget._on_cancel_clicked: emits job_canceled, which runs _job_canceled at
\* once, and then sets the error flag.
_on_cancel_clicked(j) ==
    /\ HasWidget(j)
    /\ pending' = PendingAfterCancel(j)
    /\ history' = HistoryAfterCancel(j)
    /\ active' = ActiveAfterCancel(j)
    /\ op' = [Quiet EXCEPT !.interrupts = InterruptsOnCancel(j)]
    /\ jobs' = [jobs EXCEPT ![j].error = TRUE]
    /\ UNCHANGED <<connected, nextId>>

clear_history ==
    /\ history # <<>>
    /\ history' = <<>>
    /\ op' = Quiet
    /\ UNCHANGED <<jobs, pending, active, connected, nextId>>

\* What a slot of the one QueueWidget leaves alone.
Apart == UNCHANGED <<srvvars, probe>>

Next ==
    \/ OnConnected /\ Apart
    \/ OnDisconnected /\ Apart
    \/ \E c \in Counts : queue_job(c) /\ Apart
    \/ _update_deque /\ Apart
    \/ \E id \in PromptIds : OnProgress(id) /\ Apart
    \/ \E id \in PromptIds : OnExecutionStart(id) /\ Apart
    \/ \E id \in PromptIds : OnExecutionSuccess(id) /\ Apart
    \/ \E id \in PromptIds : OnExecutionError(id) /\ Apart
    \/ \E j \in 1..Len(jobs) : _on_cancel_clicked(j) /\ Apart
    \/ clear_history /\ Apart

\* ServersWidget.__init__: no server registered, no tab.
ServersInit ==
    /\ servers = <<>>
    /\ tabs = <<>>
    /\ tab = -1
    /\ queues = EmptyMap

NoProbe == [kind |-> "none"]

\* One QueueWidget on its own.
QueueInit == Init /\ ServersInit /\ probe = NoProbe

Spec == QueueInit /\ [][Next]_allvars

\* The queue left to itself: the connection comes up and stays up, nobody
\* cancels, the 4 s timer keeps firing, and the server starts and finishes (with
\* execution_success or execution_error) every active submission that it has not
\* reported failed.
Running(id) == Known(id) /\ ~jobs[active[id]].error

ServerStarts == \E id \in PromptIds : Running(id) /\ OnExecutionStart(id)

ServerFinishes ==
    \E id \in PromptIds : Running(id) /\ (OnExecutionSuccess(id) \/ OnExecutionError(id))

NextFair ==
    \/ OnConnected /\ Apart
    \/ \E c \in Counts : queue_job(c) /\ Apart
    \/ _update_deque /\ Apart
    \/ \E id \in PromptIds : OnProgress(id) /\ Apart
    \/ \E id \in PromptIds : OnExecutionStart(id) /\ Apart
    \/ \E id \in PromptIds : OnExecutionSuccess(id) /\ Apart
    \/ \E id \in PromptIds : OnExecutionError(id) /\ Apart

FairSpec ==
    /\ QueueInit
    /\ [][NextFair]_allvars
    /\ WF_vars(OnConnected)
    /\ WF_vars(_update_deque)
    /\ WF_vars(ServerStarts)
    /\ WF_vars(ServerFinishes)

----------------------------------------------------------------------------
\* The claims.

ActiveJobs == ActiveJobsOfQueue

Queued == 1..Len(jobs)

\* C1 (single concurrency): whatever slots have run (queue_job, ticks, events,
\* cancels), the active dict holds at most one prompt id.
C1_SingleConcurrency == Cardinality(DOMAIN active) <= 1

\* One submission is active while the tick's other conditions hold: connected,
\* and the first pending job has no error, with a second job waiting.
C1_Witness ==
    /\ Cardinality(DOMAIN active) = 1
    /\ connected
    /\ Len(pending) >= 2
    /\ ~jobs[pending[1]].error

\* C2 as claimed: every queued job is in exactly one of pending, active and
\* history.
C2_ExactlyOneOfThree ==
    \A j \in Queued :
        Cardinality({c \in {"pending", "active", "history"} :
                        \/ c = "pending" /\ InSeq(pending, j)
                        \/ c = "active" /\ j \in ActiveJobs
                        \/ c = "history" /\ InSeq(history, j)}) = 1

\* C2 as amended: pending and history are disjoint and hold a job at most once;
\* a queued job is in one of the two until clear_history removes it, and is then
\* cancelled or completed; the active job is not in a collection of its own: it
\* is in pending as well, and never in history.
C2_PendingOrHistory ==
    /\ \A i, k \in 1..Len(pending) : pending[i] = pending[k] => i = k
    /\ \A i, k \in 1..Len(history) : history[i] = history[k] => i = k
    /\ \A j \in Queued :
          /\ ~(InSeq(pending, j) /\ InSeq(history, j))
          /\ j \in ActiveJobs => InSeq(pending, j) /\ ~InSeq(history, j)
          /\ ~InSeq(pending, j) /\ ~InSeq(history, j)
                => jobs[j].error \/ is_completed(jobs[j])

\* A job is active (and so in pending) while a cancelled job sits in history.
C2_Witness ==
    /\ \E j \in Queued : j \in ActiveJobs /\ InSeq(pending, j)
    /\ \E j \in Queued : InSeq(history, j) /\ jobs[j].error

\* C3 (no resubmission after error): once a job's error flag is true, no slot
\* (no tick, no execution_success) passes the job to queue_prompt again, and no
\* slot sets the flag back to false.
C3_NoResubmissionAfterError ==
    [][\A j \in Queued : jobs[j].error => jobs'[j].error /\ op'.submit # j]_vars

\* An errored job that has completed an iteration stands first in pending with
\* nothing active and the connection up: execution_success did not resubmit it
\* and the tick's other conditions hold.
C3_Witness ==
    /\ connected
    /\ active = EmptyMap
    /\ pending # <<>>
    /\ jobs[pending[1]].error
    /\ jobs[pending[1]].completions >= 1
    /\ ~is_completed(jobs[pending[1]])

\* C4 (iteration monotonicity): for every job (count >= 1) completions stays in
\* 0..count and never decreases, and once is_completed() holds it keeps holding
\* and completions no longer changes.
C4_IterationMonotonicity ==
    /\ [](\A j \in Queued :
            jobs[j].count >= 1 =>
                0 <= jobs[j].completions /\ jobs[j].completions <= jobs[j].count)
    /\ [][\A j \in Queued :
            /\ jobs'[j].completions >= jobs[j].completions
            /\ is_completed(jobs[j]) =>
                  is_completed(jobs'[j]) /\ jobs'[j].completions = jobs[j].completions]_vars

\* A job of several iterations has completed them all and is in history.
C4_Witness ==
    \E j \in Queued :
        /\ jobs[j].count >= 2
        /\ jobs[j].completions = jobs[j].count
        /\ InSeq(history, j)

\* C5 as claimed (tick admission skips errored jobs): a tick that runs connected,
\* with nothing active and a pending job without error, passes the first such
\* job to queue_prompt, stores it in active under the returned prompt id, and
\* leaves pending, with its errored jobs, as it was.
C5_TickSkipsErrored ==
    [][(/\ _update_deque
        /\ connected
        /\ active = EmptyMap
        /\ \E i \in 1..Len(pending) : ~jobs[pending[i]].error)
       => LET first == CHOOSE i \in 1..Len(pending) :
                            /\ ~jobs[pending[i]].error
                            /\ \A k \in 1..(i - 1) : jobs[pending[k]].error
          IN  /\ op'.submit = pending[first]
              /\ op'.reply = "ok" =>
                    DOMAIN active' = {nextId} /\ active'[nextId] = pending[first]
              /\ pending' = pending
              /\ \A i \in 1..Len(pending) :
                    jobs[pending[i]].error => jobs'[pending[i]].error]_vars

\* C6 as claimed (a failed job never blocks the others): with the timer firing
\* and the connection up, and no cancel, once a job has error = true every other
\* pending job without error is eventually passed to queue_prompt.
C6_FailedJobNeverBlocks ==
    \A a, b \in 1..MaxJobs :
        a # b =>
            []((/\ a \in Queued
                /\ b \in Queued
                /\ jobs[a].error
                /\ InSeq(pending, b)
                /\ ~jobs[b].error)
               => <>(b \in Queued /\ Submitted(jobs[b])))

\* C7 as claimed: execution_error for the active prompt id sets the job's error
\* flag and leaves active empty.
C7_ErrorDropsActive ==
    [][\A id \in PromptIds :
          Known(id) /\ OnExecutionError(id)
             => jobs'[active[id]].error /\ active' = EmptyMap]_vars

\* C8 as claimed (submission error): a tick whose submit is answered with an
\* error reply does not raise, marks the job error = true and leaves it in
\* pending.
C8_SubmitErrorHandled ==
    [][_update_deque /\ op'.reply = "error"
          => /\ ~op'.raised
             /\ jobs'[op'.submit].error
             /\ InSeq(pending', op'.submit)]_vars

\* An event for a prompt id that is not a key of active.
UnknownEvent(id) ==
    /\ ~Known(id)
    /\ \/ OnProgress(id)
       \/ OnExecutionStart(id)
       \/ OnExecutionSuccess(id)
       \/ OnExecutionError(id)

C10_CancelSynchronous ==
    [][\A j \in Queued :
          _on_cancel_clicked(j) =>
             /\ jobs'[j].error
             /\ j \in ActiveJobs =>
                   /\ Len(op'.interrupts) = 1
                   /\ op'.interrupts[1] \in DOMAIN active
                   /\ active[op'.interrupts[1]] = j
                   /\ DOMAIN active' = (DOMAIN active) \ {op'.interrupts[1]}
                   /\ j \notin ActiveJobs'
             /\ j \notin ActiveJobs => op'.interrupts = <<>> /\ active' = active
             /\ InSeq(pending, j) => ~InSeq(pending', j) /\ InSeq(history', j)]_vars

\* The cancel of the active job has just run: its interrupt went out, the job is
\* in history with its error flag set, and nothing is active.
C10_Witness ==
    /\ Len(op.interrupts) = 1
    /\ active = EmptyMap
    /\ \E j \in Queued : InSeq(history, j) /\ jobs[j].error /\ Submitted(jobs[j])

\* C11 as claimed (multi-iteration continuation): execution_success for the
\* active prompt id of a job without error, with completions + 1 still below
\* count, removes the old id from active and passes the same job to queue_prompt
\* at once; with a prompt id returned, active holds exactly that job under the
\* new id, and completions has gone up by one.
C11_SuccessContinuesJob ==
    [][\A id \in PromptIds :
          (/\ Known(id)
           /\ ~jobs[active[id]].error
           /\ jobs[active[id]].completions + 1 < jobs[active[id]].count
           /\ OnExecutionSuccess(id))
          => LET j == active[id] IN
             /\ id \notin DOMAIN active'
             /\ op'.submit = j
             /\ jobs'[j].completions = jobs[j].completions + 1
             /\ op'.reply = "ok" => DOMAIN active' = {nextId} /\ active'[nextId] = j]_vars

\* C12 (completion): the execution_success that brings the active job's
\* completions up to count removes that job from active and from pending and
\* puts it in history, moves no other job and submits nothing; a job whose
\* iterations are all done is never passed to queue_prompt again.
C12_CompletionMovesJob ==
    /\ [][\A id \in PromptIds :
            (/\ Known(id)
             /\ OnExecutionSuccess(id)
             /\ jobs[active[id]].completions < jobs[active[id]].count
             /\ jobs'[active[id]].completions = jobs[active[id]].count)
            => LET j == active[id] IN
               /\ j \notin ActiveJobs'
               /\ ~InSeq(pending', j)
               /\ InSeq(history', j)
               /\ op'.submit = 0
               /\ \A k \in Queued \ {j} :
                     /\ InSeq(pending', k) <=> InSeq(pending, k)
                     /\ InSeq(history', k) <=> InSeq(history, k)
                     /\ k \in ActiveJobs' <=> k \in ActiveJobs]_vars
    /\ [][\A j \in Queued : is_completed(jobs[j]) => op'.submit # j]_vars

\* A job of one iteration is completed and in history while the job queued
\* after it is still pending, untouched, and nothing is active.
C12_Witness ==
    /\ active = EmptyMap
    /\ \E j \in Queued :
          /\ is_completed(jobs[j])
          /\ InSeq(history, j)
          /\ ~jobs[j].error
    /\ \E k \in Queued : InSeq(pending, k) /\ ~Submitted(jobs[k])

\* C13 as claimed (iteration ordering): a job is passed to queue_prompt for
\* iteration N + 1 only after the execution_success of every earlier iteration
\* was handled, and never twice for the same iteration index.
C13_OneSubmitPerIteration ==
    [][\A j \in Queued :
          op'.submit = j
          => /\ \A i \in 0..(jobs[j].completions - 1) :
                   i \in DOMAIN jobs[j].results /\ "end_time" \in jobs[j].results[i]
             /\ jobs[j].completions \notin DOMAIN jobs[j].results]_vars

\* C14 (one-way life cycle): a job comes into pending only when queue_job
\* creates it; out of pending it never comes back into pending and is never
\* active again; a job in history stays there until clear_history.
C14_LifeCycleOneWay ==
    [][\A j \in 1..MaxJobs :
          /\ (j \in Queued' /\ InSeq(pending', j) /\ ~(j \in Queued /\ InSeq(pending, j)))
                => j \notin Queued /\ \E c \in Counts : queue_job(c)
          /\ (j \in Queued /\ ~InSeq(pending, j))
                => ~InSeq(pending', j) /\ j \notin ActiveJobs'
          /\ (j \in Queued /\ InSeq(history, j))
                => InSeq(history', j) \/ clear_history]_vars

\* A job that had been submitted was cancelled and is in history, and the job
\* queued after it is now the active one.
C14_Witness ==
    \E j, k \in Queued :
        /\ j # k
        /\ InSeq(history, j) /\ Submitted(jobs[j]) /\ ~InSeq(pending, j)
        /\ k \in ActiveJobs

----------------------------------------------------------------------------
\* Job.get_workflow_for_submission: seeds and prompt expansion (job.py).
\*
\* A job is looked at on its own, with what the transform reads and writes:
\*   seed_nodes   the values of the template's seed nodes (SwarmInputInteger
\*                with view_type "seed"), -1 or a fixed seed each
\*   prompts      the template's prompt text nodes, each given by its
\*                <random:...> patterns, a pattern by its number of options
\*   start_seed, completions, count   as in Job
\*   snaps        per iteration index, the seed nodes and prompt texts of the
\*                last snapshot made for it, and results[index]["seed"]
\* The template is deep-copied by every call and never written.  randint draws
\* from the interpreter's shared generator: the drawn value is an input of the
\* call.  TLC's integers cannot hold 2**63 - 1; the draws are small numbers.

SeedNodes == {<<>>, <<-1>>, <<7>>, <<-1, 7>>}
PromptNodes == {<<>>, << <<>> >>, << <<2>> >>, << <<3, 2>> >>}
SeedDraws == {0, 1, 5}

NewSeedJob(sn, pn, c) ==
    [seed_nodes |-> sn, prompts |-> pn, start_seed |-> -1,
     completions |-> 0, count |-> c, snaps |-> EmptyMap]

SharedChoice(seed, draw, k, n) == ((draw + k) % n) + 1

\* The k-th selection of random.Random(seed) among n options: a function of the
\* seed and of k alone, since the generator is created and seeded in the call;
\* draw, the state of the shared generator, is not read.
SeededChoice(seed, draw, k, n) == ((seed + k) % n) + 1

\* _replace_random_syntax: every pattern is replaced by a selection of the
\* generator seeded with seed; text without patterns comes back as it is.
_replace_random_syntax(text, seed, draw) ==
    [k \in 1..Len(text) |-> SeededChoice(seed, draw, k, text[k])]

\* Whether the loop over the nodes reaches "if self.start_seed == -1": at a seed
\* node holding -1, and at every prompt text node.
DrawsStartSeed(job) ==
    \/ \E i \in 1..Len(job.seed_nodes) : job.seed_nodes[i] = -1
    \/ job.prompts # <<>>

StartSeedRedrawn(job, draw) == IF DrawsStartSeed(job) THEN draw ELSE job.start_seed

\* "if self.start_seed == -1: self.start_seed = randint(0, 2**63 - 1)"
StartSeedAfter(job, draw) ==
    IF job.start_seed = -1 /\ DrawsStartSeed(job) THEN draw ELSE job.start_seed

\* The snapshot's seed nodes, its prompt texts, and results[completions]["seed"].
Snapshot(job, draw) ==
    LET s == StartSeedAfter(job, draw) IN
    [seeds    |-> [i \in 1..Len(job.seed_nodes) |->
                      IF job.seed_nodes[i] = -1 THEN s + job.completions
                      ELSE job.seed_nodes[i]],
     texts    |-> [i \in 1..Len(job.prompts) |->
                      _replace_random_syntax(job.prompts[i], s + job.completions, draw)],
     recorded |-> s + job.completions]

SubmissionOf(job, draw) ==
    [job EXCEPT !.start_seed = StartSeedAfter(job, draw),
                !.snaps = (job.completions :> Snapshot(job, draw)) @@ @]

\* What a step on the probe leaves alone.
ProbeOnly == UNCHANGED <<vars, srvvars>>

SeedInit ==
    /\ Init /\ ServersInit
    /\ \E sn \in SeedNodes, pn \in PromptNodes, c \in Counts : probe = NewSeedJob(sn, pn, c)

\* queue_prompt: the transform runs for the iteration index completions; a
\* rejected submission makes it run again for the same index.
SeedSubmit ==
    /\ probe.completions < probe.count
    /\ \E draw \in SeedDraws : probe' = SubmissionOf(probe, draw)
    /\ ProbeOnly

\* add_completion, after the execution_success of a submitted iteration.
SeedComplete ==
    /\ probe.completions \in DOMAIN probe.snaps
    /\ probe' = [probe EXCEPT !.completions = @ + 1]
    /\ ProbeOnly

SeedNext == SeedSubmit \/ SeedComplete

SeedSpec == SeedInit /\ [][SeedNext]_allvars

\* The seed nodes of the template that hold the sentinel -1.
SentinelNodes == {i \in 1..Len(probe.seed_nodes) : probe.seed_nodes[i] = -1}

\* C16 (seed assignment): for a job with a seed node at -1, the first
\* submission leaves start_seed = S >= 0, start_seed never changes after that,
\* and the snapshot of iteration i carries the seed S + i in that node.
C16_SeedAssignment ==
    /\ [](SentinelNodes # {} =>
            /\ probe.snaps # EmptyMap => probe.start_seed >= 0
            /\ \A i \in DOMAIN probe.snaps : \A n \in SentinelNodes :
                  probe.snaps[i].seeds[n] = probe.start_seed + i)
    /\ [][SentinelNodes # {} /\ probe.snaps # EmptyMap
             => probe'.start_seed = probe.start_seed]_allvars

\* A job of several iterations with a seed node at -1 has been submitted for
\* iteration 0 and for iteration 1, with a start seed other than 0.
C16_Witness ==
    /\ SentinelNodes # {}
    /\ probe.start_seed > 0
    /\ {0, 1} \subseteq DOMAIN probe.snaps

\* C37 as claimed (the recorded seed is the submitted seed): for every
\* iteration submitted, results[i]["seed"] is the value that every seed node of
\* the snapshot of iteration i carries, also for a seed node that the template
\* fixes to a value other than -1.
C37_RecordedSeedIsSubmitted ==
    \A i \in DOMAIN probe.snaps :
        \A n \in 1..Len(probe.seed_nodes) :
            probe.snaps[i].recorded = probe.snaps[i].seeds[n]

\* The width of the seeds.  randint(0, 2**63 - 1) draws from a range that TLC's
\* integers cannot hold, so a seed is written here as three limbs of 21 bits,
\* <<a, b, c>> for a * 2**42 + b * 2**21 + c, with the limbs b and c below
\* 2**21.  Python's integers do not wrap: a sum of 2**63 or more is a seed whose
\* first limb has left the 21 bits.  A seed node of the template is <<>> for
\* the sentinel -1, or <<seed>> for a fixed seed.

Limb == 2^21

\* 2**63 - 1
MaxSeed63 == <<Limb - 1, Limb - 1, Limb - 1>>

\* "self.start_seed + self.completions", for 0 <= n < 2**21
SeedPlus(seed, n) ==
    LET c == seed[3] + n
        b == seed[2] + (c \div Limb)
    IN  <<seed[1] + (b \div Limb), b % Limb, c % Limb>>

\* 0 <= seed <= 2**63 - 1
FitsIn63Bits(seed) ==
    /\ 0 <= seed[1] /\ seed[1] < Limb
    /\ 0 <= seed[2] /\ seed[2] < Limb
    /\ 0 <= seed[3] /\ seed[3] < Limb

\* Values that randint(0, 2**63 - 1), whose bounds are both inclusive, can
\* return.
WideDraws ==
    {<<0, 0, 0>>, <<0, 0, 1>>, <<0, 0, Limb - 1>>, <<0, Limb - 1, Limb - 1>>,
     <<5, 0, 0>>, <<Limb - 1, Limb - 1, Limb - 3>>,
     <<Limb - 1, Limb - 1, Limb - 2>>, MaxSeed63}

WideSeedNodes == {<< <<>> >>, << <<>>, <<>> >>, << <<>>, << <<0, 0, 7>> >> >>}

NewWideJob(sn, c) ==
    [seed_nodes |-> sn, start_seed |-> <<>>, completions |-> 0, count |-> c,
     snaps |-> EmptyMap]

\* "if self.start_seed == -1: self.start_seed = randint(0, 2**63 - 1)", reached
\* at a seed node that holds -1.
WideStartSeedAfter(job, draw) ==
    IF job.start_seed = <<>> /\ (\E i \in 1..Len(job.seed_nodes) : job.seed_nodes[i] = <<>>)
    THEN <<draw>> ELSE job.start_seed

\* The seed nodes of the snapshot.
WideSnapshot(job, draw) ==
    [i \in 1..Len(job.seed_nodes) |->
        IF job.seed_nodes[i] = <<>>
        THEN SeedPlus(WideStartSeedAfter(job, draw)[1], job.completions)
        ELSE job.seed_nodes[i][1]]

WideInit ==
    /\ Init /\ ServersInit
    /\ \E sn \in WideSeedNodes, c \in Counts : probe = NewWideJob(sn, c)

\* queue_prompt: the transform runs for the iteration index completions.
WideSubmit ==
    /\ probe.completions < probe.count
    /\ \E draw \in WideDraws :
          probe' = [probe EXCEPT !.start_seed = WideStartSeedAfter(probe, draw),
                                 !.snaps = (probe.completions :> WideSnapshot(probe, draw)) @@ @]
    /\ ProbeOnly

\* add_completion, after the execution_success of a submitted iteration.
WideComplete ==
    /\ probe.completions \in DOMAIN probe.snaps
    /\ probe' = [probe EXCEPT !.completions = @ + 1]
    /\ ProbeOnly

WideNext == WideSubmit \/ WideComplete

WideSpec == WideInit /\ [][WideNext]_allvars

\* C38 as claimed (seed width): every seed put into a snapshot for a seed node
\* at -1 is an integer from 0 to 2**63 - 1, whatever start_seed was drawn and
\* for every iteration index below count.
C38_SeedFitsIn63Bits ==
    \A i \in DOMAIN probe.snaps :
        \A n \in 1..Len(probe.seed_nodes) :
            probe.seed_nodes[n] = <<>> => FitsIn63Bits(probe.snaps[i][n])

\* Two jobs with the same template, start_seed and completions, each passed to
\* the transform once, with the draws of the shared generator independent.
PairInit ==
    /\ Init /\ ServersInit
    /\ \E sn \in SeedNodes, pn \in PromptNodes, s \in {-1} \cup SeedDraws,
          n \in 0..(MaxCount - 1) :
          LET job == [NewSeedJob(sn, pn, MaxCount) EXCEPT !.start_seed = s,
                                                          !.completions = n]
          IN  \* a start seed is assigned by the first submission, if by any
              /\ s # -1 => DrawsStartSeed(job)
              /\ (s = -1 /\ DrawsStartSeed(job)) => n = 0
              /\ probe = [job |-> job, first |-> <<>>, second |-> <<>>]

PairFirst ==
    /\ probe.first = <<>>
    /\ \E draw \in SeedDraws : probe' = [probe EXCEPT !.first = <<Snapshot(probe.job, draw)>>]
    /\ ProbeOnly

PairSecond ==
    /\ probe.second = <<>>
    /\ \E draw \in SeedDraws : probe' = [probe EXCEPT !.second = <<Snapshot(probe.job, draw)>>]
    /\ ProbeOnly

PairNext == PairFirst \/ PairSecond

PairSpec == PairInit /\ [][PairNext]_allvars

\* C17 as claimed (seed determinism): the two snapshots carry the same seeds and
\* the same expanded prompt texts.
C17_SeedDeterminism ==
    (probe.first # <<>> /\ probe.second # <<>>)
        => /\ probe.first[1].seeds = probe.second[1].seeds
           /\ probe.first[1].texts = probe.second[1].texts

\* C17 as amended: the same, for jobs whose start_seed is assigned (not the
\* sentinel -1).
C17_AssignedSeedDeterminism ==
    (probe.first # <<>> /\ probe.second # <<>> /\ probe.job.start_seed # -1)
        => /\ probe.first[1].seeds = probe.second[1].seeds
           /\ probe.first[1].texts = probe.second[1].texts

\* Both snapshots are made, of a template with a seed node at -1 and a prompt of
\* two patterns, at iteration 1 of a job with an assigned start seed.
C17_Witness ==
    /\ probe.first # <<>> /\ probe.second # <<>>
    /\ probe.job.start_seed >= 0
    /\ probe.job.completions = 1
    /\ probe.job.seed_nodes = <<-1>>
    /\ probe.job.prompts = << <<3, 2>> >>

----------------------------------------------------------------------------
\* Job.compute_ops (job.py).
\*
\* The workflow is given by what the loop over its SwarmInput nodes collects: an
\* optional value (<<>> or <<v>>) for each of width, height, steps, frames and
\* cfg, the optional "W, H" of an aspect-ratio node, and the optional input_width
\* and input_height of a SwarmInputImage or SwarmInputVideo node.  cfg and ops
\* are floats in the code; here both are counted in tenths (cfg 1.0 is 10, the
\* cap 1.6 is 16, ops is ten times the code's ops).

Widths == {<<>>, <<1024>>}
Heights == {<<>>, <<1024>>}
StepsValues == {<<>>, <<20>>}
FramesValues == {<<>>, <<2>>}
CfgValues == {<<>>, <<5>>, <<10>>, <<70>>}
AspectValues == {<<>>, <<1152, 864>>}
ImageValues == {<<>>, <<640, 480>>}

\* metadata.get(key, default)
Get(value, default) == IF value = <<>> THEN default ELSE value[1]

\* "if metadata.get("width") is None or metadata.get("height") is None": the
\* missing ones are taken from the aspect-ratio text.
WidthOf(md) ==
    IF md.width = <<>> /\ md.aspect # <<>> THEN <<md.aspect[1]>> ELSE md.width

HeightOf(md) ==
    IF md.height = <<>> /\ md.aspect # <<>> THEN <<md.aspect[2]>> ELSE md.height

\* "if cfg > 1.0: cfg = 1.6"
CfgFactor(cfg) == IF cfg > 10 THEN 16 ELSE cfg

compute_ops(md) ==
    LET width  == Get(WidthOf(md), Get(IF md.image = <<>> THEN <<>> ELSE <<md.image[1]>>, 1000))
        height == Get(HeightOf(md), Get(IF md.image = <<>> THEN <<>> ELSE <<md.image[2]>>, 1000))
        steps  == Get(md.steps, 10)
        frames == Get(md.frames, 1)
        cfg    == Get(md.cfg, 10)
    IN  width * height * steps * frames * CfgFactor(cfg)

OpsInit ==
    /\ Init /\ ServersInit
    /\ \E w \in Widths, h \in Heights, st \in StepsValues, f \in FramesValues,
          cfg \in CfgValues, a \in AspectValues, im \in ImageValues :
          probe = [md |-> [width |-> w, height |-> h, steps |-> st, frames |-> f,
                           cfg |-> cfg, aspect |-> a, image |-> im],
                   ops |-> <<>>]

\* Job.__init__ calls compute_ops.
ComputeOps ==
    /\ probe.ops = <<>>
    /\ probe' = [probe EXCEPT !.ops = <<compute_ops(probe.md)>>]
    /\ ProbeOnly

OpsSpec == OpsInit /\ [][ComputeOps]_allvars

\* C18 as claimed (ops cost factor): ops = width * height * steps * frames *
\* cfg_factor with cfg_factor 1.0 for a cfg of exactly 1.0 and 1.6 for every
\* other cfg (in tenths: 10 and 16), the defaults being 1000 x 1000, 10 steps,
\* 1 frame and cfg 1.0; 1024 x 1024 with 20 steps and 1 frame gives 20,971,520
\* at cfg 1.0 and 33,554,432 at cfg 7.0.
C18_OpsCostFactor ==
    probe.ops # <<>> =>
        LET md == probe.md
            width  == IF md.width # <<>> THEN md.width[1]
                      ELSE IF md.aspect # <<>> THEN md.aspect[1]
                      ELSE IF md.image # <<>> THEN md.image[1] ELSE 1000
            height == IF md.height # <<>> THEN md.height[1]
                      ELSE IF md.aspect # <<>> THEN md.aspect[2]
                      ELSE IF md.image # <<>> THEN md.image[2] ELSE 1000
            steps  == IF md.steps # <<>> THEN md.steps[1] ELSE 10
            frames == IF md.frames # <<>> THEN md.frames[1] ELSE 1
            factor == IF md.cfg = <<>> \/ md.cfg = <<10>> THEN 10 ELSE 16
        IN  /\ probe.ops[1] = width * height * steps * frames * factor
            /\ (md.width = <<1024>> /\ md.height = <<1024>> /\ md.steps = <<20>>
                   /\ md.frames = <<>> /\ md.cfg = <<10>>)
                  => probe.ops[1] = 209715200
            /\ (md.width = <<1024>> /\ md.height = <<1024>> /\ md.steps = <<20>>
                   /\ md.frames = <<>> /\ md.cfg = <<70>>)
                  => probe.ops[1] = 335544320

----------------------------------------------------------------------------
\* QueueWidget.get_performance_rate (queuewidget.py).
\*
\* performance_data maps a workflow name to a dict from GPU name to rate.  The
\* function returns a stored rate or a mean, a float quotient sum / len: a rate
\* is given here as the pair <<sum, len>>, a stored rate r as <<r, 1>>.

WorkflowNames == {"wf1", "wf2"}
GpuNames == {"3090", "5090"}
Rates == {100, 300}

\* The dicts from GPU name to rate.
GpuDicts == UNION {[g -> Rates] : g \in SUBSET GpuNames}

\* The tables: dicts from workflow name to such a dict.
Tables == UNION {[w -> GpuDicts] : w \in SUBSET WorkflowNames}

\* The (workflow, GPU) pairs with a stored rate.
Stored(table) == {e \in (DOMAIN table) \X GpuNames : e[2] \in DOMAIN table[e[1]]}

RECURSIVE SumOf(_, _)
\* sum(...) of the rates stored under the given pairs
SumOf(table, entries) ==
    IF entries = {} THEN 0
    ELSE LET e == CHOOSE x \in entries : TRUE
         IN  table[e[1]][e[2]] + SumOf(table, entries \ {e})

\* sum(rates) / len(rates)
MeanOf(table, entries) == <<SumOf(table, entries), Cardinality(entries)>>

DefaultRate == 100000
FallbackRate == 1

get_performance_rate_workflow_first(table, name, gpu) ==
    LET for_gpu  == {e \in Stored(table) : e[2] = gpu}
        for_name == {e \in Stored(table) : e[1] = name}
    IN  IF table = EmptyMap THEN <<DefaultRate, 1>>
        ELSE IF <<name, gpu>> \in Stored(table) THEN <<table[name][gpu], 1>>
        ELSE IF for_name # {} THEN MeanOf(table, for_name)
        ELSE IF for_gpu # {} THEN MeanOf(table, for_gpu)
        ELSE IF Stored(table) # {} THEN MeanOf(table, Stored(table))
        ELSE <<FallbackRate, 1>>

get_performance_rate(table, name, gpu) ==
    LET matching_rates == {e \in Stored(table) : e[2] = gpu}
        gpu_rates      == {e \in Stored(table) : e[1] = name}
        all_rates      == Stored(table)
    IN  IF table = EmptyMap THEN <<DefaultRate, 1>>
        ELSE IF name \in DOMAIN table /\ gpu \in DOMAIN table[name]
             THEN <<table[name][gpu], 1>>
        ELSE IF matching_rates # {} THEN MeanOf(table, matching_rates)
        ELSE IF name \in DOMAIN table /\ gpu_rates # {} THEN MeanOf(table, gpu_rates)
        ELSE IF all_rates # {} THEN MeanOf(table, all_rates)
        ELSE <<FallbackRate, 1>>

RateInit ==
    /\ Init /\ ServersInit
    /\ \E table \in Tables, name \in WorkflowNames, gpu \in GpuNames :
          probe = [table |-> table, name |-> name, gpu |-> gpu, rate |-> <<>>]

\* queue_job asks for the rate of the new job's workflow on the server's GPU.
LookupRate ==
    /\ probe.rate = <<>>
    /\ probe' = [probe EXCEPT !.rate = get_performance_rate(probe.table, probe.name, probe.gpu)]
    /\ ProbeOnly

RateSpec == RateInit /\ [][LookupRate]_allvars

\* C19 (lookup order): the rate is the exact entry if there is one; else the
\* mean of the rates stored for the GPU under any workflow if there is one; else
\* the mean of the rates stored for the workflow if there is one; else the mean
\* of all stored rates; and a fallback constant only when no rate is stored.
C19_LookupOrder ==
    probe.rate # <<>> =>
        LET t == probe.table
            exact  == {e \in Stored(t) : e = <<probe.name, probe.gpu>>}
            of_gpu == {e \in Stored(t) : e[2] = probe.gpu}
            of_wf  == {e \in Stored(t) : e[1] = probe.name}
            used   == IF exact # {} THEN exact
                      ELSE IF of_gpu # {} THEN of_gpu
                      ELSE IF of_wf # {} THEN of_wf
                      ELSE Stored(t)
        IN  /\ used # {} =>
                 /\ probe.rate[2] = Cardinality(used)
                 /\ probe.rate[1] = SumOf(t, used)
            /\ used = {} <=> probe.rate \in {<<DefaultRate, 1>>, <<FallbackRate, 1>>}

\* A miss on the exact entry, with the workflow stored for another GPU and the
\* GPU stored under another workflow, was answered with the GPU's rate.
C19_Witness ==
    /\ probe.rate # <<>>
    /\ probe.name \in DOMAIN probe.table
    /\ probe.gpu \notin DOMAIN probe.table[probe.name]
    /\ DOMAIN probe.table[probe.name] # {}
    /\ \E w \in DOMAIN probe.table : probe.gpu \in DOMAIN probe.table[w]
    /\ probe.rate[1] # SumOf(probe.table, {e \in Stored(probe.table) : e[1] = probe.name})

----------------------------------------------------------------------------
\* ServersWidget (serverswidget.py): one QueueWidget, with its own comfyServer
\* and its own timer, per registered server address.
\*
\* A QueueWidget is a record of its own jobs, pending, active and history, of
\* its connection's state and of the prompt id its server hands out next; its
\* slots are the ones modelled above, here as functions of that record.  Every
\* server numbers its prompts on its own, so two servers can hand out the same
\* prompt id.  Disconnection and clear_history are left out here.  The number of
\* jobs over all queues is bounded by the number of addresses (each server can
\* hold one job, or one server all of them), the number of prompt ids over all
\* servers by MaxIds.

Addresses == {"hostA:8188", "hostB:8188"}

MaxServerJobs == Cardinality(Addresses)

\* QueueWidget.__init__
NewQueue ==
    [jobs |-> <<>>, pending |-> <<>>, active |-> EmptyMap, history |-> <<>>,
     connected |-> FALSE, nextId |-> 1]

\* QueueWidget.queue_job
QW_queue_job(q, c) ==
    [q EXCEPT !.jobs = Append(@, NewJob(c)), !.pending = Append(@, Len(q.jobs) + 1)]

\* The conditions under which _update_deque calls queue_prompt.
QW_TickSubmits(q) ==
    /\ Len(q.pending) >= 1
    /\ q.connected
    /\ Cardinality(DOMAIN q.active) = 0
    /\ ~q.jobs[q.pending[1]].error

\* QueueWidget._update_deque
QW_update_deque(q, reply) ==
    IF QW_TickSubmits(q)
    THEN [q EXCEPT !.jobs[q.pending[1]] = get_workflow_for_submission(@),
                   !.active = IF reply = "ok" THEN (q.nextId :> q.pending[1]) @@ @ ELSE @,
                   !.nextId = IF reply = "ok" THEN @ + 1 ELSE @]
    ELSE q

\* _on_text_message_received, execution_start
QW_execution_start(q, id) ==
    IF id \in DOMAIN q.active /\ HasRecord(q.jobs[q.active[id]])
    THEN [q EXCEPT !.jobs[q.active[id]] = set_start_time(@)]
    ELSE q

\* _on_text_message_received, execution_success
QW_execution_success(q, id, reply) ==
    IF id \notin DOMAIN q.active THEN q
    ELSE LET j == q.active[id] IN
         IF SetEndTimeRaises(q.jobs[j])
         THEN [q EXCEPT !.jobs[j] = set_end_time(@)]
         ELSE LET done == add_completion(set_end_time(q.jobs[j])) IN
              IF is_completed(done)
              THEN IF q.pending = <<>>
                   THEN [q EXCEPT !.jobs[j] = done]
                   ELSE [q EXCEPT !.jobs[j] = done,
                                  !.pending = Tail(@),
                                  !.active = Remove(@, id),
                                  !.history = Append(@, Head(q.pending))]
              ELSE IF SuccessContinues(done)
                   THEN [q EXCEPT !.jobs[j] = get_workflow_for_submission(done),
                                  !.active = IF reply = "ok"
                                             THEN (q.nextId :> j) @@ Remove(@, id)
                                             ELSE Remove(@, id),
                                  !.nextId = IF reply = "ok" THEN @ + 1 ELSE @]
                   ELSE [q EXCEPT !.jobs[j] = done, !.active = Remove(@, id)]

\* _on_text_message_received, execution_error
QW_execution_error(q, id) ==
    IF id \in DOMAIN q.active THEN [q EXCEPT !.jobs[q.active[id]].error = TRUE] ELSE q

EventTypes == {"progress", "execution_start", "execution_success", "execution_error"}

\* QueueWidget._on_text_message_received
QW_on_text_message_received(q, type, id, reply) ==
    CASE type = "progress" -> q
      [] type = "execution_start" -> QW_execution_start(q, id)
      [] type = "execution_success" -> QW_execution_success(q, id, reply)
      [] type = "execution_error" -> QW_execution_error(q, id)

\* JobWidget._on_cancel_clicked with QueueWidget._job_canceled
QW_on_cancel_clicked(q, j) ==
    LET ids == {id \in DOMAIN q.active : q.active[id] = j}
        hit == CHOOSE id \in ids : \A k \in ids : id <= k
    IN  [q EXCEPT !.pending = Without(@, j),
                  !.history = IF InSeq(q.pending, j) THEN Append(@, j) ELSE @,
                  !.active = IF ids = {} THEN @ ELSE Remove(@, hit),
                  !.jobs[j].error = TRUE]

Registered(a) == a \in DOMAIN queues

RECURSIVE JobsIn(_)
\* The jobs created so far, over the given servers.
JobsIn(as) ==
    IF as = {} THEN 0
    ELSE LET a == CHOOSE x \in as : TRUE IN Len(queues[a].jobs) + JobsIn(as \ {a})

RECURSIVE IdsIn(_)
\* The prompt ids handed out so far, over the given servers.
IdsIn(as) ==
    IF as = {} THEN 0
    ELSE LET a == CHOOSE x \in as : TRUE IN (queues[a].nextId - 1) + IdsIn(as \ {a})

\* The reply of server a to a POST /prompt: an error, or one more prompt id.
ServerCanReply(reply) == reply = "error" \/ IdsIn(DOMAIN queues) < MaxIds

\* What a step of the ServersWidget leaves alone.
ServersOnly == UNCHANGED <<vars, probe>>

\* ServersWidget.add_server: a new QueueWidget in a new tab, unless the address
\* is registered already.  The first tab added becomes the current one.
add_server(a) ==
    /\ IF Registered(a)
       THEN UNCHANGED srvvars
       ELSE /\ queues' = (a :> NewQueue) @@ queues
            /\ servers' = Append(servers, a)
            /\ tabs' = Append(tabs, a)
            /\ tab' = IF tab = -1 THEN 0 ELSE tab
    /\ ServersOnly

\* The user selects a tab.
SelectTab(i) ==
    /\ i \in 0..(Len(tabs) - 1)
    /\ tab' = i
    /\ UNCHANGED <<servers, tabs, queues>>
    /\ ServersOnly

RouteToCurrentTab(a) == IF tab = -1 THEN {} ELSE {tabs[tab + 1]}

\* ServersWidget.queue_job: "if server_address in self._server_queue_widgets",
\* the queue widget stored under the address.
RouteOf(a) == IF Registered(a) THEN {a} ELSE {}

\* ServersWidget.queue_job
Servers_queue_job(a, c) ==
    /\ JobsIn(DOMAIN queues) < MaxServerJobs
    /\ queues' = [t \in DOMAIN queues |->
                     IF t \in RouteOf(a) THEN QW_queue_job(queues[t], c) ELSE queues[t]]
    /\ UNCHANGED <<servers, tabs, tab>>
    /\ ServersOnly

\* ServersWidget.queue_job_on_current_tab: the address at the current index of
\* the dict's keys.
queue_job_on_current_tab(c) ==
    /\ IF tab # -1
       THEN Servers_queue_job(servers[tab + 1], c)
       ELSE UNCHANGED srvvars /\ ServersOnly

\* comfyServer._on_connected, of the connection of address a.
ServerConnected(a) ==
    /\ Registered(a)
    /\ ~queues[a].connected
    /\ queues' = [queues EXCEPT ![a].connected = TRUE]
    /\ UNCHANGED <<servers, tabs, tab>>
    /\ ServersOnly

\* The timer of the QueueWidget of address a fires.
ServerTick(a, reply) ==
    /\ Registered(a)
    /\ ServerCanReply(reply)
    /\ queues' = [queues EXCEPT ![a] = QW_update_deque(@, reply)]
    /\ UNCHANGED <<servers, tabs, tab>>
    /\ ServersOnly

ListenersAll(a) == DOMAIN queues

\* The queue widgets whose _on_text_message_received is connected to the
\* textMessageReceived signal of the connection of address a: add_server passes
\* that connection to the address's own new QueueWidget (set_comfy_server).
Listeners(a) == {a}

\* A text message arrives on the connection of address a.  Only
\* execution_success can post a prompt, and get a reply.
ServerEvent(a, type, id, reply) ==
    /\ Registered(a)
    /\ IF type = "execution_success" THEN ServerCanReply(reply) ELSE reply = "ok"
    /\ queues' = [t \in DOMAIN queues |->
                     IF t \in Listeners(a)
                     THEN QW_on_text_message_received(queues[t], type, id, reply)
                     ELSE queues[t]]
    /\ UNCHANGED <<servers, tabs, tab>>
    /\ ServersOnly

\* The cancel button of job j in the QueueWidget of address a.
ServerCancel(a, j) ==
    /\ Registered(a)
    /\ j \in 1..Len(queues[a].jobs)
    /\ InSeq(queues[a].pending, j) \/ InSeq(queues[a].history, j)
    /\ queues' = [queues EXCEPT ![a] = QW_on_cancel_clicked(@, j)]
    /\ UNCHANGED <<servers, tabs, tab>>
    /\ ServersOnly

ServersNext ==
    \/ \E a \in Addresses : add_server(a)
    \/ \E i \in 0..1 : SelectTab(i)
    \/ \E a \in Addresses, c \in Counts : Servers_queue_job(a, c)
    \/ \E c \in Counts : queue_job_on_current_tab(c)
    \/ \E a \in Addresses : ServerConnected(a)
    \/ \E a \in Addresses, reply \in SubmitReplies : ServerTick(a, reply)
    \/ \E a \in Addresses, type \in EventTypes, id \in PromptIds, reply \in SubmitReplies :
          ServerEvent(a, type, id, reply)
    \/ \E a \in Addresses, j \in 1..MaxServerJobs : ServerCancel(a, j)

ServersSpec == QueueInit /\ [][ServersNext]_allvars

\* pending, active and history of a queue
Collections(q) == <<q.pending, q.active, q.history>>

\* A step of one of the operations and events of the queue of address s.
OperationOn(s) ==
    \/ \E c \in Counts : Servers_queue_job(s, c)
    \/ ServerConnected(s)
    \/ \E reply \in SubmitReplies : ServerTick(s, reply)
    \/ \E type \in EventTypes, id \in PromptIds, reply \in SubmitReplies :
          ServerEvent(s, type, id, reply)
    \/ \E j \in 1..MaxServerJobs : ServerCancel(s, j)

\* A queue whose head job has failed and still sits in pending: its own ticks
\* submit nothing.
QueueBlocked(q) == q.connected /\ q.pending # <<>> /\ q.jobs[q.pending[1]].error

\* C15: server independence.  Every operation or event on the queue of one
\* server (queue_job, connection, tick, any event with any prompt id, cancel,
\* a failed submission or execution) leaves pending, active and history of every
\* other server's queue unchanged; and a tick of a server whose own queue is
\* ready to submit (connected, a head job without error, nothing active) builds
\* the head job's workflow and, when the server accepts it, makes it active,
\* whatever state the other servers' queues are in.
C15_ServerIndependence ==
    [][/\ \A s \in DOMAIN queues :
             \/ \A t \in (DOMAIN queues) \ {s} :
                    Collections(queues'[t]) = Collections(queues[t])
             \/ ~OperationOn(s)
       /\ \A t \in DOMAIN queues, reply \in SubmitReplies :
             (ServerTick(t, reply) /\ QW_TickSubmits(queues[t])) =>
                 /\ HasRecord(queues'[t].jobs[queues[t].pending[1]])
                 /\ reply = "ok" =>
                       queues'[t].active = (queues[t].nextId :> queues[t].pending[1])
      ]_allvars

\* One server's queue is blocked by a failed job that is still active, while
\* another server, whose prompt carries the same prompt id, has its own job
\* running.
C15_Witness ==
    \E s \in DOMAIN queues, t \in DOMAIN queues :
         /\ s # t
         /\ QueueBlocked(queues[s])
         /\ DOMAIN queues[s].active # {}
         /\ DOMAIN queues[t].active = DOMAIN queues[s].active
         /\ ~queues[t].jobs[queues[t].pending[1]].error
         /\ "start_time" \in queues[t].jobs[queues[t].pending[1]].results[0]

\* The queue of address a got exactly one new job, at the tail of its pending.
GotOneJob(a) ==
    /\ Len(queues'[a].jobs) = Len(queues[a].jobs) + 1
    /\ queues'[a] = [queues[a] EXCEPT
                        !.jobs = Append(@, queues'[a].jobs[Len(queues[a].jobs) + 1]),
                        !.pending = Append(@, Len(queues[a].jobs) + 1)]

\* C20: registry routing.  ServersWidget.queue_job with a registered address
\* adds exactly one job at the tail of pending of that address's queue and
\* changes no other queue; with an address that is not registered it changes no
\* queue; queue_job_on_current_tab queues on the server whose position in the
\* registry is the current tab index, which is the queue that tab shows.
C20_RegistryRouting ==
    [][/\ \A a \in Addresses, c \in Counts :
             Servers_queue_job(a, c) =>
                 IF Registered(a)
                 THEN /\ GotOneJob(a)
                      /\ \A t \in (DOMAIN queues) \ {a} : queues'[t] = queues[t]
                 ELSE queues' = queues
       /\ \A c \in Counts :
             (queue_job_on_current_tab(c) /\ tab # -1) =>
                 /\ servers[tab + 1] = tabs[tab + 1]
                 /\ GotOneJob(servers[tab + 1])
                 /\ \A t \in (DOMAIN queues) \ {servers[tab + 1]} : queues'[t] = queues[t]
      ]_allvars

\* Two servers are registered, the second tab is selected, and the second
\* server's queue holds a job while the first one's holds none.
C20_Witness ==
    /\ Len(servers) = 2
    /\ tab = 1
    /\ queues[servers[2]].pending # <<>>
    /\ queues[servers[1]].jobs = <<>>

----------------------------------------------------------------------------
\* Pause.  The QueueWidget of this source has no pause flag, no pause() and no
\* resume(); the flag and the two places that test it are modelled from the
\* specification, around the tick and the execution_success handler of the
\* source:
\*   tick: "if active is empty, pending is non-empty, and not paused, submit";
\*   execution_success: "if the job has no error flag and the queue is not
\*     paused, resubmit immediately ... otherwise drop from active without
\*     resubmission";
\*   pause()/resume(): "toggles the pause flag; does not interrupt an
\*     already-active submission, only blocks new admissions".
\* The probe holds one queue, its flag, the last operation and whether that
\* operation called queue_prompt.

PauseIgnored(paused) == TRUE

\* "and not paused" / "and the queue is not paused"
PauseAdmits(paused) == ~paused

\* tick, with the pause flag
PausedTick(q, paused, reply) ==
    IF PauseAdmits(paused) THEN QW_update_deque(q, reply) ELSE q

\* The tick calls queue_prompt.
PausedTickSubmits(q, paused) == PauseAdmits(paused) /\ QW_TickSubmits(q)

\* execution_success resubmits the job of prompt id: the completion is counted,
\* the job is not complete and has no error.
SuccessResubmits(q, id) ==
    /\ id \in DOMAIN q.active
    /\ ~SetEndTimeRaises(q.jobs[q.active[id]])
    /\ ~is_completed(add_completion(q.jobs[q.active[id]]))
    /\ SuccessContinues(q.jobs[q.active[id]])

\* execution_success, with the pause flag: a job that would be resubmitted is
\* dropped from active instead.
Paused_execution_success(q, id, paused, reply) ==
    IF SuccessResubmits(q, id) /\ ~PauseAdmits(paused)
    THEN [q EXCEPT !.jobs[q.active[id]] = add_completion(set_end_time(@)),
                   !.active = Remove(@, id)]
    ELSE QW_execution_success(q, id, reply)

PauseProbe(q, paused, last, submitted) ==
    [kind |-> "pause", q |-> q, paused |-> paused, last |-> last, submitted |-> submitted]

PauseInit == Init /\ ServersInit /\ probe = PauseProbe(NewQueue, FALSE, "init", FALSE)

PauseCanReply(reply) == reply = "error" \/ probe.q.nextId <= MaxIds

PauseQueueJob(c) ==
    /\ Len(probe.q.jobs) < MaxJobs
    /\ probe' = PauseProbe(QW_queue_job(probe.q, c), probe.paused, "queue_job", FALSE)
    /\ ProbeOnly

PauseConnected ==
    /\ ~probe.q.connected
    /\ probe' = PauseProbe([probe.q EXCEPT !.connected = TRUE], probe.paused, "connected", FALSE)
    /\ ProbeOnly

\* pause()
pause ==
    /\ probe' = PauseProbe(probe.q, TRUE, "pause", FALSE)
    /\ ProbeOnly

\* resume()
resume ==
    /\ probe' = PauseProbe(probe.q, FALSE, "resume", FALSE)
    /\ ProbeOnly

PauseTick(reply) ==
    /\ PauseCanReply(reply)
    /\ probe' = PauseProbe(PausedTick(probe.q, probe.paused, reply), probe.paused, "tick",
                           PausedTickSubmits(probe.q, probe.paused))
    /\ ProbeOnly

PauseExecutionStart(id) ==
    /\ probe' = PauseProbe(QW_execution_start(probe.q, id), probe.paused, "execution_start", FALSE)
    /\ ProbeOnly

PauseExecutionSuccess(id, reply) ==
    /\ PauseCanReply(reply)
    /\ probe' = PauseProbe(Paused_execution_success(probe.q, id, probe.paused, reply),
                           probe.paused, "execution_success",
                           SuccessResubmits(probe.q, id) /\ PauseAdmits(probe.paused))
    /\ ProbeOnly

PauseExecutionError(id) ==
    /\ probe' = PauseProbe(QW_execution_error(probe.q, id), probe.paused, "execution_error", FALSE)
    /\ ProbeOnly

PauseNext ==
    \/ \E c \in Counts : PauseQueueJob(c)
    \/ PauseConnected
    \/ pause
    \/ resume
    \/ \E reply \in SubmitReplies : PauseTick(reply)
    \/ \E id \in PromptIds : PauseExecutionStart(id)
    \/ \E id \in PromptIds, reply \in SubmitReplies : PauseExecutionSuccess(id, reply)
    \/ \E id \in PromptIds : PauseExecutionError(id)

PauseSpec == PauseInit /\ [][PauseNext]_allvars

\* C21: pause.  No step taken while the pause flag is set calls queue_prompt,
\* neither the tick nor execution_success; pause() and resume() change nothing
\* of the queue (the active submission stays); and without the flag a tick of a
\* connected queue with nothing active and a head job without error submits.
C21_PauseBlocksAdmission ==
    [][/\ probe.paused => ~probe'.submitted
       /\ probe'.last \in {"pause", "resume"} => probe'.q = probe.q
       /\ (probe'.last = "tick" /\ ~probe.paused /\ QW_TickSubmits(probe.q))
             => probe'.submitted
      ]_allvars

\* A tick has just gone by a paused queue that is connected, has nothing active
\* and a head job without error.
C21_Witness ==
    /\ probe.kind = "pause"
    /\ probe.paused
    /\ probe.last = "tick"
    /\ QW_TickSubmits(probe.q)

----------------------------------------------------------------------------
\* Admission (QueueWidget.queue_job) of workflows that name models.  A workflow
\* is given by the set of model files its loader nodes name; the server by the
\* set of model files it has (comfyServer.get_all_models_available).  No two of
\* the names below are substitutes of one another.

ModelNames == {"alpha.safetensors", "beta.safetensors"}

\* The model files a workflow names that the server does not have.
MissingModels(refs, available) == refs \ available

\* What queue_job reports as missing: it has no return statement and raises
\* nothing, whatever the workflow names.
ReportedMissing(refs, available) == {}

AdmitProbe(available, q, last, refs, reported) ==
    [kind |-> "admit", available |-> available, q |-> q, last |-> last,
     refs |-> refs, reported |-> reported]

AdmitInit ==
    /\ Init /\ ServersInit
    /\ \E available \in SUBSET ModelNames :
          probe = AdmitProbe(available, NewQueue, "init", {}, {})

\* QueueWidget.queue_job(workflow_name, workflow, count)
AdmitQueueJob(refs, c) ==
    /\ Len(probe.q.jobs) < MaxJobs
    /\ probe' = AdmitProbe(probe.available, QW_queue_job(probe.q, c), "queue_job", refs,
                           ReportedMissing(refs, probe.available))
    /\ ProbeOnly

AdmitConnected ==
    /\ ~probe.q.connected
    /\ probe' = AdmitProbe(probe.available, [probe.q EXCEPT !.connected = TRUE],
                           "connected", {}, {})
    /\ ProbeOnly

AdmitTick(reply) ==
    /\ reply = "error" \/ probe.q.nextId <= MaxIds
    /\ probe' = AdmitProbe(probe.available, QW_update_deque(probe.q, reply), "tick", {}, {})
    /\ ProbeOnly

AdmitNext ==
    \/ \E refs \in SUBSET ModelNames, c \in Counts : AdmitQueueJob(refs, c)
    \/ AdmitConnected
    \/ \E reply \in SubmitReplies : AdmitTick(reply)

AdmitSpec == AdmitInit /\ [][AdmitNext]_allvars

\* C22 as claimed (admission rejection): a queue_job whose workflow names a
\* model file the server does not have, and for which there is no substitute,
\* reports a non-empty list of missing models and leaves pending, active and
\* history unchanged.
C22_MissingModelRejected ==
    [][(/\ probe'.last = "queue_job"
        /\ MissingModels(probe'.refs, probe.available) # {})
          => /\ probe'.reported # {}
             /\ Collections(probe'.q) = Collections(probe.q)
      ]_allvars

----------------------------------------------------------------------------
\* The adaptive performance model.  Nothing under src/ writes a rate into the
\* performance table (ServersWidget only hands the table to its queue widgets,
\* loads it and saves it); the update is modelled from the specification:
\*   "updated only by a one-sided exponential moving average:
\*    new_rate = 0.9 x old_rate + 0.1 x (ops/elapsed) when both workflow+GPU
\*    already have an entry; otherwise the first observation is stored directly.
\*    Updates are skipped if elapsed time or ops is <= 0."
\* Rates are exact fractions [num, den] in lowest terms, so that the arithmetic
\* is the real-number one; the rounding of floating point is not modelled.

RECURSIVE GCD(_, _)
GCD(a, b) == IF b = 0 THEN a ELSE GCD(b, a % b)

Frac(n, d) == [num |-> n \div GCD(n, d), den |-> d \div GCD(n, d)]

Less(x, y) == x.num * y.den < y.num * x.den

EmaKeys == {<<"wf1", "3090">>, <<"wf1", "5090">>}
EmaRates == {1, 3}
EmaOps == {0, 1, 4}
EmaElapsed == {0, 1, 2}

\* ops/elapsed
ObservedRate(ops, elapsed) == Frac(ops, elapsed)

EmaOfOps(old, ops, elapsed) == Frac(9 * old.num + ops * old.den, 10 * old.den)

\* 0.9 x old_rate + 0.1 x (ops/elapsed)
Ema(old, ops, elapsed) ==
    Frac(9 * old.num * elapsed + ops * old.den, 10 * old.den * elapsed)

\* One observation (workflow and GPU of key, ops, elapsed) fed to the model.
update_performance(table, key, ops, elapsed) ==
    IF ops <= 0 \/ elapsed <= 0 THEN table
    ELSE IF key \in DOMAIN table
         THEN [table EXCEPT ![key] = Ema(@, ops, elapsed)]
         ELSE (key :> ObservedRate(ops, elapsed)) @@ table

EmaProbe(table, prev, obs, n) ==
    [kind |-> "ema", table |-> table, prev |-> prev, obs |-> obs, n |-> n]

EmaInit ==
    /\ Init /\ ServersInit
    /\ \E keys \in SUBSET EmaKeys :
          \E table \in [keys -> {Frac(r, 1) : r \in EmaRates}] :
             probe = EmaProbe(table, table, <<>>, 0)

Observe(key, ops, elapsed) ==
    /\ probe.n < MaxObservations
    /\ probe' = EmaProbe(update_performance(probe.table, key, ops, elapsed), probe.table,
                         <<key, ops, elapsed>>, probe.n + 1)
    /\ ProbeOnly

EmaSpec ==
    EmaInit /\ [][\E key \in EmaKeys, ops \in EmaOps, elapsed \in EmaElapsed :
                     Observe(key, ops, elapsed)]_allvars

\* C23: EMA convergence.  After an observation (key, ops, elapsed) with ops > 0
\* and elapsed > 0: a key without a rate gets ops/elapsed; a key with a rate
\* below ops/elapsed gets a larger rate that is still not above ops/elapsed, one
\* above it a smaller rate that is still not below it, one equal to it keeps it,
\* and in each case 10 x new = 9 x old + ops/elapsed; every other key keeps its
\* rate.  An observation with ops <= 0 or elapsed <= 0 changes nothing.
C23_EmaConvergence ==
    probe.n > 0 =>
        LET key == probe.obs[1]
            ops == probe.obs[2]
            elapsed == probe.obs[3]
            old == probe.prev[key]
            new == probe.table[key]
        IN  IF ops <= 0 \/ elapsed <= 0 THEN probe.table = probe.prev
            ELSE /\ DOMAIN probe.table = DOMAIN probe.prev \cup {key}
                 /\ \A k \in DOMAIN probe.prev : k # key => probe.table[k] = probe.prev[k]
                 /\ IF key \notin DOMAIN probe.prev
                    THEN new.num * elapsed = ops * new.den
                    ELSE LET target == [num |-> ops, den |-> elapsed] IN
                         /\ Less(old, target) => Less(old, new) /\ ~Less(target, new)
                         /\ Less(target, old) => Less(new, old) /\ ~Less(new, target)
                         /\ (~Less(old, target) /\ ~Less(target, old)) => new = old
                         /\ 10 * new.num * old.den * elapsed
                               = (9 * old.num * elapsed + ops * old.den) * new.den

\* The same observation was fed twice to a key whose rate was below it, and the
\* rate is now strictly between the rate before and ops/elapsed.
C23_Witness ==
    /\ probe.kind = "ema"
    /\ probe.n = 2
    /\ probe.obs[2] > 0 /\ probe.obs[3] > 0
    /\ probe.obs[1] \in DOMAIN probe.prev
    /\ probe.prev[probe.obs[1]] = Ema(Frac(1, 1), probe.obs[2], probe.obs[3])
    /\ Less(probe.prev[probe.obs[1]], probe.table[probe.obs[1]])
    /\ Less(probe.table[probe.obs[1]], Frac(probe.obs[2], probe.obs[3]))

----------------------------------------------------------------------------
\* Asset uploads in Job.get_workflow_for_submission (job.py:273-303).  A job's
\* template has image inputs (SwarmInputImage) and video inputs
\* (SwarmInputVideo), each holding a local path.  The server answers every
\* upload with the name it stored the file under; uploads are sent with
\* overwrite=False, so every upload gets a name of its own, here the number of
\* the upload.  The job keeps one _image_name and one _video_name.

ImageInputs == {<<>>, <<"a.png">>, <<"b.jpg">>, <<"a.png", "b.jpg">>, <<"a.png", "a.png">>}
VideoInputs == {<<>>, <<"v.mp4">>, <<"v.mp4", "w.mp4">>}

NewUploadJob(images, videos, c) ==
    [kind |-> "upload", images |-> images, videos |-> videos, count |-> c,
     completions |-> 0, image_name |-> <<>>, video_name |-> <<>>,
     uploads |-> <<>>, snaps |-> EmptyMap]

\* The uploads of one submission: at completions = 0 one per input, in the
\* order of the nodes; none later.
UploadsOf(job, inputs, what) ==
    IF job.completions = 0
    THEN [i \in 1..Len(inputs) |-> [what |-> what, input |-> i, path |-> inputs[i]]]
    ELSE <<>>

\* The name the server gives to the n-th upload of a submission that follows
\* sent uploads.
ServerName(sent, n) == sent + n

\* The name written into input i of the snapshot: at completions = 0 the name
\* just returned for that input, later the job's one cached name.
NameInSnapshot(job, first, cached, i) ==
    IF job.completions = 0 THEN ServerName(first, i) ELSE cached[1]

\* The cached name after the submission: the name of the last upload.
CachedAfter(job, first, cached, inputs) ==
    IF job.completions = 0 /\ inputs # <<>> THEN <<ServerName(first, Len(inputs))>> ELSE cached

UploadSubmission(job) ==
    LET sent == Len(job.uploads)
        imgs == UploadsOf(job, job.images, "image")
        vids == UploadsOf(job, job.videos, "video")
    IN  [job EXCEPT
            !.uploads = @ \o imgs \o vids,
            !.image_name = CachedAfter(job, sent, @, job.images),
            !.video_name = CachedAfter(job, sent + Len(imgs), @, job.videos),
            !.snaps = (job.completions :>
                          [images |-> [i \in 1..Len(job.images) |->
                                          NameInSnapshot(job, sent, job.image_name, i)],
                           videos |-> [i \in 1..Len(job.videos) |->
                                          NameInSnapshot(job, sent + Len(imgs),
                                                         job.video_name, i)]]) @@ @]

UploadInit ==
    /\ Init /\ ServersInit
    /\ \E images \in ImageInputs, videos \in VideoInputs, c \in Counts :
          probe = NewUploadJob(images, videos, c)

\* queue_prompt: the transform runs for the iteration index completions; a
\* rejected submission makes it run again for the same index.
UploadSubmit ==
    /\ probe.completions < probe.count
    /\ Len(probe.uploads) <= MaxCount
    /\ probe' = UploadSubmission(probe)
    /\ ProbeOnly

\* add_completion, after the execution_success of a submitted iteration.
UploadComplete ==
    /\ probe.completions \in DOMAIN probe.snaps
    /\ probe' = [probe EXCEPT !.completions = @ + 1]
    /\ ProbeOnly

UploadNext == UploadSubmit \/ UploadComplete

UploadSpec == UploadInit /\ [][UploadNext]_allvars

\* The uploads made so far for one input.
UploadsFor(what, i) ==
    {n \in 1..Len(probe.uploads) :
        probe.uploads[n].what = what /\ probe.uploads[n].input = i}

\* C24 as claimed (asset upload once and reuse): every image and video input of
\* a job is uploaded at most once, and the snapshot of every iteration after the
\* first carries, in each input, the name the server returned for that input at
\* iteration 0.
C24_UploadOnceAndReuse ==
    /\ \A i \in 1..Len(probe.images) : Cardinality(UploadsFor("image", i)) <= 1
    /\ \A i \in 1..Len(probe.videos) : Cardinality(UploadsFor("video", i)) <= 1
    /\ \A k \in DOMAIN probe.snaps :
          k >= 1 => /\ probe.snaps[k].images = probe.snaps[0].images
                    /\ probe.snaps[k].videos = probe.snaps[0].videos

----------------------------------------------------------------------------
\* A Job under its own methods, called in the order in which the queue calls
\* them: get_workflow_for_submission (again for the same index after a rejected
\* submission), set_start_time, set_end_time, add_completion after a
\* set_end_time that did not raise.  The clock (time.time()) advances between
\* the calls; starts holds the value of every start_time that results holds.

EstimatedRuntimes == {1, 3}

JobProbe(job, last, now, starts, estimated) ==
    [kind |-> "job", job |-> job, last |-> last, now |-> now, starts |-> starts,
     estimated |-> estimated]

JobInit ==
    /\ Init /\ ServersInit
    /\ \E c \in Counts, estimated \in EstimatedRuntimes :
          probe = JobProbe(NewJob(c), "init", 0, EmptyMap, estimated)

JobSubmit ==
    /\ ~is_completed(probe.job)
    /\ probe' = JobProbe(get_workflow_for_submission(probe.job), "submit", probe.now,
                         Remove(probe.starts, probe.job.completions), probe.estimated)
    /\ ProbeOnly

JobStart ==
    /\ HasRecord(probe.job)
    /\ probe' = JobProbe(set_start_time(probe.job), "set_start_time", probe.now,
                         (probe.job.completions :> probe.now) @@ probe.starts,
                         probe.estimated)
    /\ ProbeOnly

JobEnd ==
    /\ ~SetEndTimeRaises(probe.job)
    /\ probe' = [probe EXCEPT !.job = set_end_time(@), !.last = "set_end_time"]
    /\ ProbeOnly

JobComplete ==
    /\ ~is_completed(probe.job)
    /\ HasRecord(probe.job)
    /\ "elapsed_time" \in probe.job.results[probe.job.completions]
    /\ probe' = [probe EXCEPT !.job = add_completion(@), !.last = "add_completion"]
    /\ ProbeOnly

\* time.time() moves on.
ClockTick ==
    /\ probe.now < MaxClock
    /\ probe' = [probe EXCEPT !.now = @ + 1, !.last = "clock"]
    /\ ProbeOnly

JobNext == JobSubmit \/ JobStart \/ JobEnd \/ JobComplete \/ ClockTick

JobSpec == JobInit /\ [][JobNext]_allvars

\* C25: submission replaces the iteration record.  A submission for an index
\* that already has a record leaves results with the same indices, the record
\* of that index being the fresh one of this call (nothing of the earlier
\* record, such as its start_time, is kept), and the records of the other
\* indices as they were.
C25_SubmissionReplacesRecord ==
    [][(probe'.last = "submit" /\ HasRecord(probe.job)) =>
          /\ DOMAIN probe'.job.results = DOMAIN probe.job.results
          /\ probe'.job.results[probe.job.completions] = {}
          /\ \A k \in DOMAIN probe.job.results :
                k # probe.job.completions =>
                    probe'.job.results[k] = probe.job.results[k]
      ]_allvars

\* Iteration 1 has just been submitted a second time, after its first
\* submission had got a start_time; iteration 0 keeps its full record.
C25_Witness ==
    /\ probe.kind = "job"
    /\ probe.last = "submit"
    /\ probe.job.completions = 1
    /\ probe.job.results[1] = {}
    /\ 0 \in DOMAIN probe.job.results
    /\ "elapsed_time" \in probe.job.results[0]

\* A returned value v is <<v>>; a call that raises KeyError is <<>>.

\* "start_time" in self.results[0], after len(self.results) > 0
Iteration0Started(p) ==
    /\ DOMAIN p.job.results # {}
    /\ 0 \in DOMAIN p.job.results
    /\ "start_time" \in p.job.results[0]

\* results[0] is read whenever results is not empty.
Results0Raises(p) == DOMAIN p.job.results # {} /\ 0 \notin DOMAIN p.job.results

\* Job.get_remaining_estimated_runtime (job.py)
get_remaining_estimated_runtime(p) ==
    IF Results0Raises(p) THEN <<>>
    ELSE IF Iteration0Started(p)
         THEN <<p.estimated - p.now + p.starts[0]>>
         ELSE <<p.estimated>>

\* Job.get_remaining_estimated_runtime, the copy in queuewidget.py: it tests
\* results[0] and then reads results[self.completions]["start_time"].
get_remaining_estimated_runtime_queuewidget(p) ==
    IF Results0Raises(p) THEN <<>>
    ELSE IF Iteration0Started(p)
         THEN IF p.job.completions \in DOMAIN p.starts
              THEN <<p.estimated - p.now + p.starts[p.job.completions]>>
              ELSE <<>>
         ELSE <<p.estimated>>

\* What the claim has the call return.
RemainingAsClaimed(p) ==
    IF 0 \in DOMAIN p.starts THEN <<p.estimated - (p.now - p.starts[0])>> ELSE <<p.estimated>>

\* C27 as claimed (remaining estimated runtime): at every point of a job's life
\* get_remaining_estimated_runtime, in job.py and in its copy in queuewidget.py,
\* returns estimated_runtime - (now - start_time of iteration 0) when iteration
\* 0 has a start_time and estimated_runtime otherwise, and never raises.
C27_RemainingRuntime ==
    /\ get_remaining_estimated_runtime(probe) = RemainingAsClaimed(probe)
    /\ get_remaining_estimated_runtime_queuewidget(probe) = RemainingAsClaimed(probe)

----------------------------------------------------------------------------
\* The template workflow (Job.workflow) under get_workflow_for_submission.  The
\* template is given by its seed nodes and prompt texts (as above), the local
\* paths of its image inputs, and whether its nodes carry "options" entries;
\* paths and server-assigned names are file names, numbered here.  The loop
\* writes into "workflow", which line 254 made a deep copy of self.workflow.

AssetPaths == {<<>>, <<101>>, <<101, 102>>}

NewTemplateJob(sn, pn, assets, options, c) ==
    [kind |-> "template", seed_nodes |-> sn, prompts |-> pn, start_seed |-> -1,
     completions |-> 0, count |-> c, snaps |-> EmptyMap,
     assets |-> assets, options |-> options, image_name |-> <<>>, sent |-> 0,
     submitted |-> <<>>,
     original |-> [seeds |-> sn, texts |-> pn, assets |-> assets, options |-> options]]

\* self.workflow
TemplateOf(job) ==
    [seeds |-> job.seed_nodes, texts |-> job.prompts, assets |-> job.assets,
     options |-> job.options]

\* "workflow" at the return: seeds and prompt texts replaced, image inputs
\* holding server names, "options" entries deleted.
SubmittedWorkflow(job, draw) ==
    [seeds   |-> Snapshot(job, draw).seeds,
     texts   |-> Snapshot(job, draw).texts,
     assets  |-> [i \in 1..Len(job.assets) |->
                     NameInSnapshot(job, job.sent, job.image_name, i)],
     options |-> FALSE]

WorkflowAliased(template, written) == written

\* self.workflow after the call: the loop wrote into copy.deepcopy(self.workflow).
WorkflowAfterSubmission(template, written) == template

TemplateSubmission(job, draw) ==
    LET written == SubmittedWorkflow(job, draw)
        kept == WorkflowAfterSubmission(TemplateOf(job), written)
        seeded == SubmissionOf(job, draw)
    IN  [seeded EXCEPT
            !.seed_nodes = kept.seeds,
            !.prompts = kept.texts,
            !.assets = kept.assets,
            !.options = kept.options,
            !.image_name = CachedAfter(job, job.sent, @, job.assets),
            !.sent = IF job.completions = 0 THEN @ + Len(job.assets) ELSE @,
            !.submitted = <<written>>]

TemplateInit ==
    /\ Init /\ ServersInit
    /\ \E sn \in SeedNodes, pn \in PromptNodes, assets \in AssetPaths,
          options \in BOOLEAN, c \in Counts :
          probe = NewTemplateJob(sn, pn, assets, options, c)

TemplateSubmit ==
    /\ probe.completions < probe.count
    /\ probe.sent <= MaxCount
    /\ \E draw \in SeedDraws : probe' = TemplateSubmission(probe, draw)
    /\ ProbeOnly

TemplateComplete ==
    /\ probe.completions \in DOMAIN probe.snaps
    /\ probe' = [probe EXCEPT !.completions = @ + 1]
    /\ ProbeOnly

TemplateNext == TemplateSubmit \/ TemplateComplete

TemplateSpec == TemplateInit /\ [][TemplateNext]_allvars

\* C26: template immutability.  After any number of submissions the job's
\* template is the one it was created with: its seed nodes (the sentinel -1
\* included), its local asset paths, its prompt texts with their patterns, and
\* its "options" entries.
C26_TemplateImmutable == TemplateOf(probe) = probe.original

\* The second iteration of a job has been submitted; its template has a seed
\* sentinel, an image input, a prompt with patterns and options entries, and
\* the snapshot returned differs from it in all four.
C26_Witness ==
    /\ probe.kind = "template"
    /\ 1 \in DOMAIN probe.snaps
    /\ \E i \in 1..Len(probe.seed_nodes) : probe.seed_nodes[i] = -1
    /\ probe.assets # <<>>
    /\ probe.options
    /\ probe.submitted # <<>>
    /\ probe.submitted[1].seeds # probe.seed_nodes
    /\ probe.submitted[1].texts # probe.prompts
    /\ probe.submitted[1].assets # probe.assets
    /\ ~probe.submitted[1].options

----------------------------------------------------------------------------
\* Binary frames (QueueWidget._on_binary_message_received).  A frame is given by
\* its 4-byte type, by the second 4-byte word when the type is 1 (the image
\* sub-type), and for type 4 by whether the image has more than one frame.  The
\* probe holds one queue, _last_prompt_id (unset until the first text message
\* with a prompt_id), and what the last frame did.

Frames ==
    {[type |-> 1, sub |-> 1, animated |-> FALSE],
     [type |-> 1, sub |-> 2, animated |-> FALSE],
     [type |-> 1, sub |-> 3, animated |-> FALSE],
     [type |-> 2, sub |-> 0, animated |-> FALSE],
     [type |-> 4, sub |-> 0, animated |-> FALSE],
     [type |-> 4, sub |-> 0, animated |-> TRUE]}

FrameRouteSwapped(frame) ==
    CASE frame.type = 1 /\ frame.sub = 1 -> "storage"
      [] frame.type = 1 /\ frame.sub = 2 -> "preview"
      [] frame.type = 4 -> "preview"
      [] OTHER -> "none"

\* Where the handler takes a frame: _save_result_image, the image viewer, or
\* nowhere.
FrameRoute(frame) ==
    CASE frame.type = 1 /\ frame.sub = 2 -> "storage"
      [] frame.type = 1 /\ frame.sub = 1 -> "preview"
      [] frame.type = 4 -> "preview"
      [] OTHER -> "none"

\* _save_result_image: the image is written, and recorded as the output file of
\* the job's current iteration, when _last_prompt_id is an active prompt id;
\* reading _last_prompt_id before any text message set it raises.
_save_result_image(q, last_prompt_id) ==
    IF last_prompt_id = <<>> THEN [q |-> q, effect |-> "raised"]
    ELSE IF last_prompt_id[1] \notin DOMAIN q.active THEN [q |-> q, effect |-> "dropped"]
    ELSE LET j == q.active[last_prompt_id[1]] IN
         IF ~HasRecord(q.jobs[j]) THEN [q |-> q, effect |-> "raised"]
         ELSE [q |-> [q EXCEPT !.jobs[j].results[q.jobs[j].completions] =
                                   @ \cup {"output_files"}],
               effect |-> "saved"]

\* _on_binary_message_received
_on_binary_message_received(q, last_prompt_id, frame) ==
    CASE FrameRoute(frame) = "storage" -> _save_result_image(q, last_prompt_id)
      [] FrameRoute(frame) = "preview" ->
            [q |-> q, effect |-> IF frame.animated THEN "preview_file" ELSE "preview"]
      [] OTHER -> [q |-> q, effect |-> "ignored"]

BinaryProbe(q, last_prompt_id, frame, effect) ==
    [kind |-> "binary", q |-> q, last_prompt_id |-> last_prompt_id,
     frame |-> frame, effect |-> effect]

BinaryInit == Init /\ ServersInit /\ probe = BinaryProbe(NewQueue, <<>>, <<>>, "none")

BinaryQueueJob(c) ==
    /\ Len(probe.q.jobs) < MaxJobs
    /\ probe' = BinaryProbe(QW_queue_job(probe.q, c), probe.last_prompt_id, <<>>, "none")
    /\ ProbeOnly

BinaryConnected ==
    /\ ~probe.q.connected
    /\ probe' = BinaryProbe([probe.q EXCEPT !.connected = TRUE], probe.last_prompt_id,
                            <<>>, "none")
    /\ ProbeOnly

BinaryTick(reply) ==
    /\ reply = "error" \/ probe.q.nextId <= MaxIds
    /\ probe' = BinaryProbe(QW_update_deque(probe.q, reply), probe.last_prompt_id,
                            <<>>, "none")
    /\ ProbeOnly

\* A text message: every one of the four types stores its prompt_id in
\* _last_prompt_id before it looks the id up.
BinaryEvent(type, id, reply) ==
    /\ IF type = "execution_success"
       THEN reply = "error" \/ probe.q.nextId <= MaxIds
       ELSE reply = "ok"
    /\ probe' = BinaryProbe(QW_on_text_message_received(probe.q, type, id, reply), <<id>>,
                            <<>>, "none")
    /\ ProbeOnly

BinaryFrame(frame) ==
    /\ LET done == _on_binary_message_received(probe.q, probe.last_prompt_id, frame)
       IN  probe' = BinaryProbe(done.q, probe.last_prompt_id, <<frame>>, done.effect)
    /\ ProbeOnly

BinaryNext ==
    \/ \E c \in Counts : BinaryQueueJob(c)
    \/ BinaryConnected
    \/ \E reply \in SubmitReplies : BinaryTick(reply)
    \/ \E type \in EventTypes, id \in PromptIds, reply \in SubmitReplies :
          BinaryEvent(type, id, reply)
    \/ \E frame \in Frames : BinaryFrame(frame)

BinarySpec == BinaryInit /\ [][BinaryNext]_allvars

----------------------------------------------------------------------------
\* ServersWidget.clear_history, with the operations of ServersSpec.

\* QueueWidget.clear_history
QW_clear_history(q) == [q EXCEPT !.history = <<>>]

ClearedCurrentTab == IF tab = -1 THEN {} ELSE {tabs[tab + 1]}

\* "for queue_widget in self._server_queue_widgets.values()"
Cleared == DOMAIN queues

\* ServersWidget.clear_history
Servers_clear_history ==
    /\ \E a \in DOMAIN queues : queues[a].history # <<>>
    /\ queues' = [t \in DOMAIN queues |->
                     IF t \in Cleared THEN QW_clear_history(queues[t]) ELSE queues[t]]
    /\ UNCHANGED <<servers, tabs, tab>>
    /\ ServersOnly

ClearNext ==
    \/ \E a \in Addresses : add_server(a)
    \/ \E i \in 0..1 : SelectTab(i)
    \/ \E a \in Addresses, c \in Counts : Servers_queue_job(a, c)
    \/ \E c \in Counts : queue_job_on_current_tab(c)
    \/ \E a \in Addresses : ServerConnected(a)
    \/ \E a \in Addresses, reply \in SubmitReplies : ServerTick(a, reply)
    \/ \E a \in Addresses, type \in EventTypes, id \in PromptIds, reply \in SubmitReplies :
          ServerEvent(a, type, id, reply)
    \/ \E a \in Addresses, j \in 1..MaxServerJobs : ServerCancel(a, j)
    \/ Servers_clear_history

ClearSpec == QueueInit /\ [][ClearNext]_allvars

\* C29: clear_history on the ServersWidget empties the history of every
\* server's queue and leaves every queue's pending and active, and all jobs, as
\* they were.
C29_ClearHistoryAll ==
    [][Servers_clear_history =>
          \A t \in DOMAIN queues :
             /\ queues'[t].history = <<>>
             /\ queues'[t].pending = queues[t].pending
             /\ queues'[t].active = queues[t].active
             /\ queues'[t].jobs = queues[t].jobs
      ]_allvars

\* Both servers' histories have been cleared (each has a job that is neither
\* pending nor active nor in history) while one of them still has a job pending
\* and active.
C29_Witness ==
    /\ Len(servers) = 2
    /\ \A t \in DOMAIN queues : queues[t].history = <<>> /\ queues[t].jobs # <<>>
    /\ \E t \in DOMAIN queues :
          /\ queues[t].pending = <<>>
          /\ queues[t].active = EmptyMap
    /\ \E t \in DOMAIN queues :
          /\ queues[t].pending # <<>>
          /\ queues[t].active # EmptyMap

----------------------------------------------------------------------------
\* ServersWidget.__init__ and load_performance_data: the performance table of
\* a new ServersWidget, from the built-in table and bowser-performance.json.

\* What open(self._performance_file) finds: <<>> for no file (FileNotFoundError),
\* <<table>> for a file holding that table.
PerformanceFiles == {<<>>} \cup {<<t>> : t \in Tables}

\* dict.update: every key of the other dict gets the other dict's value.
DictUpdate(d, other) ==
    [k \in (DOMAIN d) \cup (DOMAIN other) |-> IF k \in DOMAIN other THEN other[k] ELSE d[k]]

\* ServersWidget.load_performance_data
load_performance_data(data, file) ==
    IF file = <<>> THEN data ELSE DictUpdate(data, file[1])

LoadProbe(defaults, file, data, loaded) ==
    [defaults |-> defaults, file |-> file, data |-> data, loaded |-> loaded]

LoadInit ==
    /\ Init /\ ServersInit
    /\ \E defaults \in Tables, file \in PerformanceFiles :
          probe = LoadProbe(defaults, file, EmptyMap, FALSE)

\* ServersWidget.__init__: "self._performance_data = performance_data.copy()",
\* then, at its end, "self.load_performance_data()".
ServersWidget_init ==
    /\ ~probe.loaded
    /\ probe' = LoadProbe(probe.defaults, probe.file,
                          load_performance_data(probe.defaults, probe.file), TRUE)
    /\ ProbeOnly

LoadSpec == LoadInit /\ [][ServersWidget_init]_allvars

\* C30: after the load, each (workflow, GPU) pair of the file has the file's
\* rate, and each built-in pair that the file does not contain is still there
\* with its built-in rate, also when the file has other GPUs for that workflow.
C30_LoadMergesPerPair ==
    (probe.loaded /\ probe.file # <<>>) =>
        /\ \A e \in Stored(probe.file[1]) :
              /\ e \in Stored(probe.data)
              /\ probe.data[e[1]][e[2]] = probe.file[1][e[1]][e[2]]
        /\ \A e \in Stored(probe.defaults) \ Stored(probe.file[1]) :
              /\ e \in Stored(probe.data)
              /\ probe.data[e[1]][e[2]] = probe.defaults[e[1]][e[2]]

----------------------------------------------------------------------------
\* More claims about the one QueueWidget (Spec, FairSpec).

\* C31 (the active job is the head of the queue): whenever active is not empty,
\* the job it holds is the first element of pending; and the element that the
\* completion branch of execution_success pops off the front of pending is the
\* job of the prompt id the message was for.
C31_ActiveIsHead ==
    /\ [](\A id \in DOMAIN active : pending # <<>> /\ pending[1] = active[id])
    /\ [][\A id \in PromptIds :
            (Known(id) /\ OnExecutionSuccess(id) /\ pending' # pending)
               => /\ pending' = Tail(pending)
                  /\ Head(pending) = active[id]
                  /\ history' = Append(history, active[id])]_vars

\* The first job was completed and popped into history, and the job queued
\* after it, now first in pending, is the active one.
C31_Witness ==
    /\ Len(pending) = 1
    /\ \E id \in DOMAIN active : active[id] = pending[1] /\ pending[1] = 2
    /\ history = <<1>>
    /\ is_completed(jobs[1]) /\ ~jobs[1].error

\* C32 (history is apart): a job in history is neither in pending nor active
\* and is in history once; a cancel click on a job that is already in history
\* (cancelled before, or completed) moves nothing.
C32_HistoryApart ==
    /\ [](\A i \in 1..Len(history) :
            /\ ~InSeq(pending, history[i])
            /\ history[i] \notin ActiveJobs
            /\ \A k \in 1..Len(history) : history[k] = history[i] => k = i)
    /\ [][\/ UNCHANGED <<pending, active, history>> /\ op'.interrupts = <<>>
          \/ \A j \in Queued : ~(InSeq(history, j) /\ _on_cancel_clicked(j))]_vars

\* Both jobs are in history with the error flag that a cancel click sets, one
\* of them with all its iterations done, and nothing is pending or active.
C32_Witness ==
    /\ Len(history) = 2
    /\ pending = <<>> /\ active = EmptyMap
    /\ \A j \in Queued : jobs[j].error
    /\ \E j \in Queued : is_completed(jobs[j]) /\ "elapsed_time" \in jobs[j].results[0]
    /\ \E j \in Queued : ~Submitted(jobs[j])

\* C33 (FIFO admission): of two jobs of the queue, the one queued later is not
\* passed to queue_prompt for the first time while the one queued earlier is
\* still in pending.  Jobs are numbered in the order of their queue_job calls.
C33_FifoAdmission ==
    [][\A a, b \in Queued :
          (a < b /\ InSeq(pending, a) /\ ~Submitted(jobs[b])) => op'.submit # b]_vars

\* The second job has just been submitted for the first time, the first job
\* having left pending for history.
C33_Witness ==
    /\ op.submit = 2
    /\ jobs[2].completions = 0
    /\ InSeq(history, 1)
    /\ pending = <<2>>

\* C35 (no submission without a connection): a tick that runs while
\* is_connected() is false calls queue_prompt for no job and leaves pending,
\* active and history, and every job, as they were.
C35_TickNeedsConnection ==
    [][\/ connected
       \/ op'.submit = 0 /\ UNCHANGED <<jobs, pending, active, history>>
       \/ ~_update_deque]_vars

\* The connection has dropped after a job went through; another job without
\* error is first in pending, nothing is active, and the last slot (a tick,
\* say) submitted nothing.
C35_Witness ==
    /\ ~connected
    /\ active = EmptyMap
    /\ pending # <<>>
    /\ ~jobs[pending[1]].error
    /\ \E j \in Queued : InSeq(history, j) /\ is_completed(jobs[j])
    /\ op = Quiet

----------------------------------------------------------------------------
\* The queue with the 4 s timer firing and a server that reports
\* execution_start and then execution_success for every submission it holds.
\* Everything else may still happen: the connection may drop, a POST /prompt
\* may be answered with an error reply, execution_error may arrive, the user
\* may cancel and clear the history.  The prompt ids of the model are MaxIds,
\* so jobs are queued only while their iterations together need no more than
\* that.

RECURSIVE IterationsOf(_)
IterationsOf(js) == IF js = <<>> THEN 0 ELSE Head(js).count + IterationsOf(Tail(js))

LiveQueueJob(c) == IterationsOf(jobs) + c <= MaxIds /\ queue_job(c)

\* The server starts a submission it has not started yet.
LiveStart(id) ==
    /\ Known(id)
    /\ HasRecord(jobs[active[id]])
    /\ "start_time" \notin jobs[active[id]].results[jobs[active[id]].completions]
    /\ OnExecutionStart(id)

\* The server finishes a submission it has started.
LiveSuccess(id) ==
    /\ Known(id)
    /\ ~SetEndTimeRaises(jobs[active[id]])
    /\ OnExecutionSuccess(id)

LiveNext ==
    \/ OnConnected /\ Apart
    \/ OnDisconnected /\ Apart
    \/ \E c \in Counts : LiveQueueJob(c) /\ Apart
    \/ _update_deque /\ Apart
    \/ \E id \in PromptIds : OnProgress(id) /\ Apart
    \/ \E id \in PromptIds : OnExecutionStart(id) /\ Apart
    \/ \E id \in PromptIds : OnExecutionSuccess(id) /\ Apart
    \/ \E id \in PromptIds : OnExecutionError(id) /\ Apart
    \/ \E j \in 1..Len(jobs) : _on_cancel_clicked(j) /\ Apart
    \/ clear_history /\ Apart

LiveSpec ==
    /\ QueueInit
    /\ [][LiveNext]_allvars
    /\ WF_vars(OnConnected)
    /\ WF_vars(_update_deque)
    /\ WF_vars(\E id \in PromptIds : LiveStart(id))
    /\ WF_vars(\E id \in PromptIds : LiveSuccess(id))

\* The connection stays up from some time on; no POST /prompt is answered
\* with an error reply; no execution_error arrives; nobody cancels (a cancel
\* and an execution_error for an active prompt id set the job's error flag,
\* which nothing clears, and every execution_error shows its dialog).
ServerWorks ==
    /\ <>[]connected
    /\ [](op.reply # "error")
    /\ [](~op.notice)
    /\ [](\A j \in Queued : ~jobs[j].error)

\* C34 (progress to completion): if the connection stays up, every submit gets
\* a prompt id, every submission is started and finished by the server and
\* there is no cancel and no execution_error, then with the timer firing every
\* queued job of count >= 1 is eventually in history with completions = count,
\* and pending and active are empty again and again.
C34_ProgressToCompletion ==
    ServerWorks =>
        /\ \A j \in 1..MaxJobs :
              \/ [](j \notin Queued)
              \/ <>(/\ j \in Queued
                    /\ InSeq(history, j)
                    /\ jobs[j].completions = jobs[j].count)
        /\ []<>(pending = <<>> /\ active = EmptyMap)

\* A job of several iterations has run them all, each under its own prompt id,
\* and is in history without an error flag, with nothing pending or active.
C34_Witness ==
    /\ pending = <<>> /\ active = EmptyMap
    /\ \E j \in Queued :
          /\ jobs[j].count >= 2
          /\ jobs[j].completions = jobs[j].count
          /\ ~jobs[j].error
          /\ InSeq(history, j)
          /\ \A i \in 0..(jobs[j].count - 1) : "elapsed_time" \in jobs[j].results[i]

----------------------------------------------------------------------------
\* GenMain.__init__ (genmain.py): the servers of a new main window.
\*
\* The --server argument and the server_address of bowser-gen.toml are given
\* as the lists that the split on "," (with strip, empty items dropped) makes
\* of them; <<>> is an argument or a setting that is absent or empty.  The
\* registry is ServersWidget._server_instances: the connection (its index in
\* _comfy_servers) stored under each address; _server_queue_widgets has the same
\* keys.

DefaultAddress == "127.0.0.1:8188"

StartAddresses == Addresses \cup {DefaultAddress}

AddressLists ==
    {<<>>} \cup {<<a>> : a \in StartAddresses}
           \cup {<<a, b>> : a \in StartAddresses, b \in StartAddresses}

\* The command line wins; _load_settings fills the list only when it is empty.
ConfiguredAddresses(cli, settings) == IF cli # <<>> THEN cli ELSE settings

\* "Create comfy server instances for each server address", or one for the
\* default address: the address each connection is made for.
ComfyServersFor(addresses) ==
    IF addresses # <<>> THEN addresses ELSE <<DefaultAddress>>

\* ServersWidget.add_server(server_address, comfy_server)
Registry_add_server(reg, a, k) ==
    IF a \in DOMAIN reg THEN reg ELSE (a :> k) @@ reg

\* The address the loop passes to add_server for the i-th connection (i from
\* 0): <<>> where self._server_addresses[i] raises IndexError.
AddressForServer(addresses, i) ==
    IF i = 0 \/ i < Len(addresses)
    THEN IF i < Len(addresses) THEN <<addresses[i + 1]>> ELSE <<>>
    ELSE <<DefaultAddress>>

RECURSIVE AddServers(_, _, _, _)
\* "for i, server in enumerate(self._comfy_servers)", from index i on: the
\* registry at the end of the loop, and whether the loop raised.
AddServers(reg, addresses, n, i) ==
    IF i >= n THEN [reg |-> reg, raised |-> FALSE]
    ELSE LET a == AddressForServer(addresses, i) IN
         IF a = <<>> THEN [reg |-> reg, raised |-> TRUE]
         ELSE AddServers(Registry_add_server(reg, a[1], i + 1), addresses, n, i + 1)

StartProbe(cli, settings, started, comfy_servers, reg, raised) ==
    [cli |-> cli, settings |-> settings, started |-> started,
     comfy_servers |-> comfy_servers, reg |-> reg, raised |-> raised]

StartInit ==
    /\ Init /\ ServersInit
    /\ \E cli \in AddressLists, settings \in AddressLists :
          probe = StartProbe(cli, settings, FALSE, <<>>, EmptyMap, FALSE)

\* GenMain.__init__
GenMain_init ==
    /\ ~probe.started
    /\ LET addresses == ConfiguredAddresses(probe.cli, probe.settings)
           made      == ComfyServersFor(addresses)
           added     == AddServers(EmptyMap, addresses, Len(made), 0)
       IN  probe' = StartProbe(probe.cli, probe.settings, TRUE, made,
                               added.reg, added.raised)
    /\ ProbeOnly

StartSpec == StartInit /\ [][GenMain_init]_allvars

\* C39 as claimed (start-up registry): with no server address on the command
\* line and none in the settings, start-up does not raise and registers one
\* connection, under 127.0.0.1:8188; every connection created is registered
\* under exactly one address; adding a registered address again leaves the
\* registry as it is.
C39_StartupRegistry ==
    probe.started =>
        /\ (probe.cli = <<>> /\ probe.settings = <<>>)
              => /\ ~probe.raised
                 /\ DOMAIN probe.reg = {DefaultAddress}
                 /\ Len(probe.comfy_servers) = 1
        /\ \A k \in 1..Len(probe.comfy_servers) :
              Cardinality({a \in DOMAIN probe.reg : probe.reg[a] = k}) = 1
        /\ \A a \in DOMAIN probe.reg :
              Registry_add_server(probe.reg, a, Len(probe.comfy_servers) + 1) = probe.reg

====
